---- MODULE Spec2Model ----
(***************************************************************************)
(* A model of the record-linkage pipeline of ag-enforcement-tracker:       *)
(*   - src/normalization/entities.py   (clean_name, is_valid_canonical_name,*)
(*                                      EntityResolver)                     *)
(*   - src/validation/dedup.py         (_compare_pair, find_duplicates,     *)
(*                                      cluster_multistate_matches)         *)
(*   - src/extractors/press_release.py (PressReleaseExtractor.extract,      *)
(*                                      _compute_quality_score)             *)
(*   - scripts/bulk_extract.py, src/cli.py (the extraction orchestrators)   *)
(*                                                                         *)
(* Strings are TLA+ strings; a character is a string of length one.        *)
(* Probabilities, confidences and quality scores are kept as exact         *)
(* integers (hundredths, or thousandths times the date window).            *)
(***************************************************************************)
EXTENDS Integers, Sequences, FiniteSets, TLC

(***************************************************************************)
(* Characters and the Python str methods the code uses                     *)
(***************************************************************************)
Ch(s, i) == SubSeq(s, i, i)

UpperChars == "ABCDEFGHIJKLMNOPQRSTUVWXYZ"
LowerChars == "abcdefghijklmnopqrstuvwxyz"
DigitChars == "0123456789"

CharsOf(s) == {Ch(s, i) : i \in 1..Len(s)}

UpperSet == CharsOf(UpperChars)
LowerSet == CharsOf(LowerChars)
DigitSet == CharsOf(DigitChars)
SpaceSet == {" ", "\t", "\n"}
WordSet  == UpperSet \cup LowerSet \cup DigitSet \cup {"_"}

LowerOf == [c \in UpperSet |-> Ch(LowerChars, CHOOSE i \in 1..26 : Ch(UpperChars, i) = c)]
UpperOf == [c \in LowerSet |-> Ch(UpperChars, CHOOSE i \in 1..26 : Ch(LowerChars, i) = c)]

LowerCh(c) == IF c \in UpperSet THEN LowerOf[c] ELSE c
UpperCh(c) == IF c \in LowerSet THEN UpperOf[c] ELSE c

RECURSIVE str_lower(_)
str_lower(s) == IF s = "" THEN "" ELSE LowerCh(Head(s)) \o str_lower(Tail(s))

\* str.isupper(): at least one cased character and no lowercase one
str_isupper(s) == /\ \E i \in 1..Len(s) : Ch(s, i) \in UpperSet
                  /\ \A i \in 1..Len(s) : Ch(s, i) \notin LowerSet

\* str.islower(): at least one cased character and no uppercase one
str_islower(s) == /\ \E i \in 1..Len(s) : Ch(s, i) \in LowerSet
                  /\ \A i \in 1..Len(s) : Ch(s, i) \notin UpperSet

\* str.title(): a letter that follows a non-letter is uppercased, every
\* other letter is lowercased
RECURSIVE TitleFrom(_, _)
TitleFrom(s, prevCased) ==
    IF s = "" THEN ""
    ELSE LET c == Head(s)
             cased == c \in UpperSet \cup LowerSet
         IN (IF prevCased THEN LowerCh(c) ELSE UpperCh(c)) \o TitleFrom(Tail(s), cased)

str_title(s) == TitleFrom(s, FALSE)

RECURSIVE LStrip(_, _)
LStrip(s, cs) == IF s # "" /\ Head(s) \in cs THEN LStrip(Tail(s), cs) ELSE s

RECURSIVE RStrip(_, _)
RStrip(s, cs) == IF s # "" /\ Ch(s, Len(s)) \in cs THEN RStrip(SubSeq(s, 1, Len(s) - 1), cs) ELSE s

\* str.strip()
str_strip(s) == RStrip(LStrip(s, SpaceSet), SpaceSet)

\* re.sub(r'\s+', ' ', s)
RECURSIVE CollapseWs(_, _)
CollapseWs(s, inWs) ==
    IF s = "" THEN ""
    ELSE IF Head(s) \in SpaceSet
         THEN (IF inWs THEN "" ELSE " ") \o CollapseWs(Tail(s), TRUE)
         ELSE Head(s) \o CollapseWs(Tail(s), FALSE)

SetMax(S) == CHOOSE x \in S : \A y \in S : y <= x
SetMin(S) == CHOOSE x \in S : \A y \in S : x <= y

(***************************************************************************)
(* Regular expressions (Python re, the constructs the source uses).        *)
(* A pattern is a tree of records; Ends(re, ic, s, i) is the set of        *)
(* positions at which a match of re that starts at position i can end      *)
(* (positions run from 1 to Len(s) + 1); ic is re.IGNORECASE.              *)
(***************************************************************************)
Lit(str)       == [t |-> "lit", s |-> str]
Cls(cs)        == [t |-> "set", cs |-> cs, neg |-> FALSE]
NotCls(cs)     == [t |-> "set", cs |-> cs, neg |-> TRUE]
Cat(xs)        == [t |-> "seq", xs |-> xs]
Alt(xs)        == [t |-> "alt", xs |-> xs]
Rep(r, lo, hi) == [t |-> "rep", r |-> r, lo |-> lo, hi |-> hi]
Bol            == [t |-> "bol"]
Eol            == [t |-> "eol"]
Wb             == [t |-> "wb"]
NotAhead(r)    == [t |-> "nla", r |-> r]

Inf     == 0 - 1
Opt(r)  == Rep(r, 0, 1)
Star(r) == Rep(r, 0, Inf)
Plus(r) == Rep(r, 1, Inf)
Ws0     == Star(Cls(SpaceSet))
Ws1     == Plus(Cls(SpaceSet))
AnyCh   == NotCls({"\n"})
Words(xs) == Alt([k \in 1..Len(xs) |-> Lit(xs[k])])

IsWordAt(s, i) == i >= 1 /\ i <= Len(s) /\ Ch(s, i) \in WordSet

LitAt(str, ic, s, i) ==
    /\ i + Len(str) - 1 <= Len(s)
    /\ \A k \in 1..Len(str) :
          IF ic THEN LowerCh(Ch(s, i + k - 1)) = LowerCh(Ch(str, k))
                ELSE Ch(s, i + k - 1) = Ch(str, k)

InCls(cs, ic, c) == IF ic THEN LowerCh(c) \in cs \/ UpperCh(c) \in cs ELSE c \in cs

RECURSIVE Ends(_, _, _, _)
RECURSIVE SeqEnds(_, _, _, _, _)
RECURSIVE RepEnds(_, _, _, _, _, _, _)

SeqEnds(xs, k, ic, s, from) ==
    IF k > Len(xs) \/ from = {} THEN from
    ELSE SeqEnds(xs, k + 1, ic, s, UNION {Ends(xs[k], ic, s, i) : i \in from})

\* done: positions reached after n repetitions; acc: positions reached after
\* an admissible number of repetitions; seen: every position reached so far
RepEnds(re, ic, s, n, done, acc, seen) ==
    LET acc2 == IF n >= re.lo THEN acc \cup done ELSE acc
    IN IF done = {} \/ (re.hi # Inf /\ n >= re.hi) \/ (n >= re.lo /\ done \subseteq seen)
       THEN acc2
       ELSE RepEnds(re, ic, s, n + 1,
                    UNION {Ends(re.r, ic, s, i) : i \in done}, acc2, seen \cup done)

Ends(re, ic, s, i) ==
    CASE re.t = "lit" -> IF LitAt(re.s, ic, s, i) THEN {i + Len(re.s)} ELSE {}
      [] re.t = "set" -> IF i <= Len(s) /\ (InCls(re.cs, ic, Ch(s, i)) # re.neg)
                         THEN {i + 1} ELSE {}
      [] re.t = "seq" -> SeqEnds(re.xs, 1, ic, s, {i})
      [] re.t = "alt" -> UNION {Ends(re.xs[k], ic, s, i) : k \in 1..Len(re.xs)}
      [] re.t = "rep" -> RepEnds(re, ic, s, 0, {i}, {}, {})
      [] re.t = "bol" -> IF i = 1 THEN {i} ELSE {}
      [] re.t = "eol" -> IF i = Len(s) + 1 \/ (i = Len(s) /\ Ch(s, i) = "\n") THEN {i} ELSE {}
      [] re.t = "wb"  -> IF IsWordAt(s, i - 1) # IsWordAt(s, i) THEN {i} ELSE {}
      [] re.t = "nla" -> IF Ends(re.r, ic, s, i) = {} THEN {i} ELSE {}

\* pattern.search(s)
re_search(re, ic, s) == \E i \in 1..(Len(s) + 1) : Ends(re, ic, s, i) # {}

\* pattern.match(s)
re_match(re, ic, s) == Ends(re, ic, s, 1) # {}

\* pattern.sub("", s), for the patterns of this module: each is anchored at
\* the start or the end of the string and its greedy match is its longest
\* match, so at most one match is removed
CutOut(s, i, j) == SubSeq(s, 1, i - 1) \o SubSeq(s, j, Len(s))

CutLongestAt(re, ic, s, i) == CutOut(s, i, SetMax(Ends(re, ic, s, i)))

CutLeftmost(re, ic, s, starts) ==
    IF starts = {} THEN s ELSE CutLongestAt(re, ic, s, SetMin(starts))

re_sub_empty(re, ic, s) ==
    CutLeftmost(re, ic, s, {i \in 1..(Len(s) + 1) : Ends(re, ic, s, i) # {}})

\* words separated by \s+
Phrase(xs) == Cat([k \in 1..(2 * Len(xs) - 1) |->
                     IF k % 2 = 1 THEN Lit(xs[(k + 1) \div 2]) ELSE Ws1])

(***************************************************************************)
(* entities.py: the module-level patterns                                  *)
(***************************************************************************)
LEGAL_SUFFIXES ==
    Cat(<<Opt(Lit(",")), Ws0, Wb,
          Alt(<<Cat(<<Lit("Inc"), Opt(Lit("."))>>), Lit("Incorporated"),
                Cat(<<Lit("Corp"), Opt(Lit("."))>>), Lit("Corporation"),
                Lit("LLC"), Cat(<<Lit("L.L.C"), Opt(Lit("."))>>),
                Cat(<<Lit("Ltd"), Opt(Lit("."))>>), Lit("Limited"),
                Cat(<<Lit("L.P"), Opt(Lit("."))>>), Lit("LP"), Lit("LLP"),
                Cat(<<Lit("L.L.P"), Opt(Lit("."))>>),
                Cat(<<Lit("Co"), Opt(Lit("."))>>), Lit("Company"),
                Lit("PLC"), Cat(<<Lit("P.L.C"), Opt(Lit("."))>>),
                Lit("NA"), Cat(<<Lit("N.A"), Opt(Lit("."))>>),
                Cat(<<Lit("et"), Ws1, Lit("al"), Opt(Lit("."))>>),
                Cat(<<Lit("d/b/a"), Ws1, Plus(NotCls(SpaceSet))>>)>>),
          Ws0, Eol>>)

LEADING_ARTICLES == Cat(<<Bol, Words(<<"The", "A", "An">>), Ws1>>)

TRAILING_FRAGMENTS ==
    Cat(<<Ws0,
          Alt(<<Cat(<<Words(<<"claiming", "alleging", "asserting", "accusing", "contending">>),
                      Ws1, Words(<<"that", "the">>)>>),
                Lit("regarding"), Phrase(<<"over", "the">>),
                Cat(<<Lit("for"), Ws1,
                      Words(<<"violating", "illegally", "deceptive", "failing">>)>>),
                Phrase(<<"is", "scheduled">>), Phrase(<<"has", "now", "been">>),
                Lit("today"), Phrase(<<"to", "hold", "the">>),
                Phrase(<<"secured", "by">>), Lit("resulting"), Phrase(<<"the", "parent">>),
                Cat(<<Lit("to"), Ws1, Words(<<"inc", "move">>)>>),
                Cat(<<Opt(Lit(",")), Ws1, Phrase(<<"with", "a", "u.s.">>)>>),
                Cat(<<Lit("."), Ws1,
                      Alt(<<Lit("Filed"), Phrase(<<"The", "states">>),
                            Phrase(<<"The", "money">>)>>)>>)>>),
          Star(AnyCh), Eol>>)

LEADING_DESCRIPTORS ==
    Cat(<<Bol,
          Alt(<<Phrase(<<"technology", "giant">>), Phrase(<<"internet", "giant">>),
                Cat(<<Lit("pharmaceutical"), Ws1, Words(<<"giant", "manufacturer">>)>>),
                Phrase(<<"opioid", "manufacturer">>), Phrase(<<"oxycontin", "maker">>),
                Cat(<<Phrase(<<"drug", "manufacturer">>), Opt(Lit("s"))>>),
                Cat(<<Lit("e"), Opt(Lit("-")), Lit("cigarette"), Ws1,
                      Words(<<"maker", "company">>)>>),
                Cat(<<Phrase(<<"electronic", "cigarette", "maker">>), Opt(Lit(",")), Ws0>>)>>),
          Ws0>>)

ENTITY_STOPWORDS ==
    {"a", "an", "the", "his", "her", "its", "that", "this", "them", "they",
     "it", "he", "she", "we", "us", "me", "my", "our", "your", "their",
     "who", "what", "which", "where", "when", "how", "there", "here",
     "all", "any", "new", "one", "two", "three", "four", "five", "six",
     "each", "than", "then", "also", "just", "like", "over", "only",
     "many", "some", "such", "more", "most", "very", "much", "well",
     "back", "into", "with", "from", "about", "will", "or", "if", "so",
     "no", "not", "but", "yet", "do", "can", "may", "shall",
     "be", "been", "being", "am", "is", "are", "was", "were",
     "have", "has", "had", "having", "get", "got", "did", "would",
     "could", "should", "must", "make", "made", "take", "took",
     "give", "gave", "keep", "kept", "let", "say", "said", "use",
     "run", "ran",
     "business", "company", "nation", "office", "help",
     "complete", "election", "investigation", "discrimination",
     "travel", "pharmaceutical", "operating", "major", "other",
     "former", "another", "several", "act", "law", "court", "state",
     "federal", "child", "children", "people", "person",
     "real estate", "seller",
     "notice", "report", "order", "plan", "claim", "relief", "charge",
     "grant", "rule", "damage", "risk", "abuse", "penalty", "complaint",
     "violation", "statute", "settlement", "enforcement", "authority",
     "oversight", "guidance", "protection", "measure", "effort",
     "failure", "impact", "safety", "access", "matter", "issue",
     "harm", "threat", "concern", "policy",
     "mortgage", "cryptocurrency", "e-cigarette", "companies",
     "funding", "centers", "patients", "owners"}

\* a compiled pattern: the tree and its re.IGNORECASE flag
Pat(re, ic) == [re |-> re, ic |-> ic]

GARBAGE_NAME_PATTERNS == <<
    Pat(Cat(<<Bol, Cls(LowerSet), NotAhead(Words(<<"bay", "phone", "pod", "tunes">>))>>), FALSE),
    Pat(Cat(<<Bol, Phrase(<<"death", "of">>), Wb>>), TRUE),
    Pat(Alt(<<Cat(<<Lit("attorney"), Opt(AnyCh), Opt(Lit("s")), Ws1, Lit("general")>>),
              Phrase(<<"attorneys", "general">>), Phrase(<<"district", "attorney">>)>>), TRUE),
    Pat(Cat(<<Words(<<"trump", "biden", "obama">>), Ws1, Words(<<"administration", "era">>)>>), TRUE),
    Pat(Cat(<<Bol, Lit("president"), Ws1, Words(<<"trump", "biden", "donald">>), Wb>>), TRUE),
    Pat(Alt(<<Phrase(<<"department", "of">>), Phrase(<<"secretary", "of">>),
              Cat(<<Lit("u"), Opt(Lit(".")), Lit("s"), Opt(Lit(".")), Ws1,
                    Words(<<"supreme", "district", "department">>)>>)>>), TRUE),
    Pat(Cat(<<Bol, Plus(Cls(DigitSet)), Ws1, Opt(Cat(<<Lit("state"), Ws1>>)),
              Lit("attorney"), Opt(Lit("s")), Ws1, Lit("general"), Wb>>), TRUE),
    Pat(Cat(<<Bol, Alt(<<Lit("drug"), Lit("highway"), Lit("transit"),
                         Cat(<<Lit("veteran"), Opt(Lit("s"))>>)>>),
              Ws1, Lit("administration"), Wb>>), TRUE),
    Pat(Cat(<<Bol, Phrase(<<"homeland", "security">>), Wb>>), TRUE),
    Pat(Cat(<<Wb, Words(<<"commission", "bureau", "department">>), Ws0, Eol>>), TRUE),
    Pat(Cat(<<Wb, Alt(<<Lit("women"), Lit("disabilities"), Lit("privacy"), Lit("recovery"),
                        Cat(<<Lit("clean"), Ws1, Words(<<"air", "water">>)>>)>>),
              Ws1, Lit("act"), Wb>>), TRUE),
    Pat(Cat(<<Alt(<<Bol, Wb>>),
              Alt(<<Lit("drug"), Lit("opioid"), Lit("pharmaceutical"), Lit("tobacco"),
                    Cat(<<Lit("e"), Opt(Lit("-")), Lit("cigarette")>>), Lit("generic")>>),
              Ws1,
              Words(<<"maker", "manufacturer", "distributor", "company", "companies">>),
              Opt(Lit("s")), Wb>>), TRUE),
    Pat(Cat(<<Bol, Words(<<"two", "three", "four", "five", "six", "seven", "eight", "ten">>), Ws1,
              NotAhead(Alt(<<Cat(<<Lit("west"), Wb>>), Cat(<<Lit("guys"), Wb>>),
                             Cat(<<Lit("river"), Opt(Lit("s")), Wb>>),
                             Cat(<<Lit("flag"), Opt(Lit("s")), Wb>>),
                             Cat(<<Lit("star"), Wb>>), Cat(<<Lit("point"), Wb>>)>>))>>), TRUE),
    Pat(Cat(<<Wb, Lit("food"), Ws1, Words(<<"&", "and">>), Ws1,
              Phrase(<<"drug", "administration">>), Wb>>), TRUE),
    Pat(Cat(<<Bol, Phrase(<<"settlement", "with">>), Wb>>), TRUE),
    Pat(Cat(<<Wb, Phrase(<<"police", "department">>), Wb>>), TRUE),
    Pat(Cat(<<Bol, Phrase(<<"press", "release">>), Wb>>), TRUE),
    Pat(Cat(<<Bol, Lit("acting"), Ws1,
              Words(<<"tax", "attorney", "district", "commissioner">>)>>), TRUE),
    Pat(Cat(<<Bol, Plus(Cls(DigitSet)), Ws1,
              Alt(<<Cat(<<Lit("state"), Opt(Lit("s"))>>), Cat(<<Lit("individual"), Opt(Lit("s"))>>),
                    Cat(<<Lit("defendant"), Opt(Lit("s"))>>), Lit("companies"), Lit("businesses"),
                    Cat(<<Lit("officer"), Opt(Lit("s"))>>), Cat(<<Lit("suspect"), Opt(Lit("s"))>>),
                    Lit("felonies"), Cat(<<Lit("producer"), Opt(Lit("s"))>>), Lit("pharmacies"),
                    Phrase(<<"drug", "makers">>), Phrase(<<"other", "sta">>)>>)>>), TRUE),
    Pat(Cat(<<Wb, Words(<<"claiming", "alleging", "saying", "stating", "arguing", "asserting",
                          "accusing", "contending", "opposing", "demanding", "requesting",
                          "attempting", "resulting", "announcing", "filed", "scheduled",
                          "according", "beginning", "providing">>), Wb>>), TRUE),
    Pat(Cat(<<Wb, Lit("to"), Ws1,
              Words(<<"protect", "block", "stop", "prevent", "hold", "ensure", "support",
                      "help", "combat", "fight", "halt", "reform", "end", "strike", "address",
                      "require", "prohibit", "investigate", "crack", "avoid", "enforce">>),
              Wb>>), TRUE),
    Pat(Cat(<<Bol, Words(<<"his", "her", "its", "their">>), Ws1>>), TRUE),
    Pat(Cat(<<Bol, Phrase(<<"consumer", "alert">>), Wb>>), TRUE),
    Pat(Cat(<<Bol, Lit("20"), Rep(Cls(DigitSet), 2, 2), Ws1,
              Words(<<"capital", "health", "annual", "cost", "data">>)>>), TRUE),
    Pat(Cat(<<Lit(","), Ws1,
              Alt(<<Lit("the"), Lit("a"), Lit("an"), Lit("with"), Lit("for"), Lit("that"),
                    Lit("which"), Lit("who"), Lit("in"), Lit("on"), Lit("to"), Lit("its"),
                    Lit("his"), Lit("her"), Lit("claiming"), Lit("alleging"), Lit("accusing"),
                    Lit("asserting"), Lit("but"), Phrase(<<"and", "the">>)>>),
              Cls(SpaceSet)>>), TRUE),
    Pat(Alt(<<Phrase(<<"amicus", "brief">>), Phrase(<<"brief", "joined", "by">>)>>), TRUE),
    Pat(Cat(<<Alt(<<Lit("battleground"), Phrase(<<"on", "behalf", "of">>)>>), Ws1>>), TRUE),
    Pat(Cat(<<Lit("-based"), Ws1, Lit("company"), Wb>>), TRUE),
    Pat(Cat(<<Wb, Lit("largest"), Ws1, Plus(Cls(WordSet)), Ws1, Lit("settlement"), Wb>>), TRUE),
    Pat(Cat(<<Bol, Words(<<"unlawfully", "illegally", "fraudulently", "knowingly", "willfully">>),
              Ws1>>), TRUE),
    Pat(Cat(<<Bol, Lit("consumer"), Opt(Lit("s")), Ws1,
              Words(<<"is", "are", "was", "were", "has", "have">>), Wb>>), TRUE),
    Pat(Cat(<<Bol, Lit("over"), Ws1, Words(<<"hud", "the", "a", "an", "its">>), Wb>>), TRUE),
    Pat(Cat(<<Bol, Words(<<"trafficker", "lender", "borrower", "manufacturer", "distributor",
                           "retailer", "contractor", "employer", "provider", "operator",
                           "vendor", "dealer", "broker">>), Opt(Lit("s")), Eol>>), TRUE),
    Pat(Cat(<<Bol, Cls(UpperSet), Plus(Cls(WordSet)),
              Opt(Cat(<<Ws1, Cls(UpperSet), Plus(Cls(WordSet))>>)), Ws1,
              Words(<<"man", "woman", "men", "women", "business", "resident", "couple",
                      "family">>), Eol>>), TRUE),
    Pat(Cat(<<Wb, Lit("for"), Ws1,
              Words(<<"deceiving", "misleading", "defrauding", "violating", "failing",
                      "scamming", "harming", "exploiting", "overcharging", "deceptive",
                      "illegal", "unlawful", "false", "unfair">>)>>), TRUE),
    Pat(Cat(<<Lit("-"), Ws0, Eol>>), FALSE),
    Pat(Cat(<<Bol,
              Alt(<<Cat(<<Lit("e"), Opt(Lit("-")), Lit("cigarette")>>), Lit("cryptocurrency"),
                    Lit("crypto"), Lit("vaping"), Lit("mortgage"), Lit("tobacco")>>),
              Ws1,
              Words(<<"platform", "companies", "company", "firm", "firms", "exchange",
                      "exchanges", "lender", "lenders", "broker", "brokers", "servicer",
                      "servicers">>),
              Opt(Lit("s")), Alt(<<Cls(SpaceSet), Lit(","), Eol>>)>>), TRUE),
    Pat(Cat(<<Bol, Words(<<"during", "before", "after", "between", "within", "toward", "upon">>),
              Ws1, Words(<<"the", "a", "an", "this", "that">>), Eol>>), TRUE),
    Pat(Cat(<<Bol, Words(<<"owner", "founder", "ceo", "president", "chairman">>), Ws1,
              Plus(Cls(WordSet)), Ws1, Lit("for"), Wb>>), TRUE) >>

(***************************************************************************)
(* Configuration loaded at import time and by EntityResolver.__init__.     *)
(* config/defendant_blocklist.yaml and config/entities.yaml are data; a    *)
(* small table stands for each.                                            *)
(***************************************************************************)
BLOCKLIST_EXACT == {"john doe"}
BLOCKLIST_PATTERNS == << Pat(Cat(<<Bol, Phrase(<<"unknown", "defendant">>)>>), TRUE) >>

\* the "aliases" mapping of entities.yaml, as written in the file
ConfigAliases ==
    << <<"Google LLC", "Google">>, <<"Alphabet Inc", "Google">>,
       <<"Facebook", "Meta">>, <<"Meta Platforms", "Meta">>,
       <<"Wells Fargo Bank", "Wells Fargo">> >>

(***************************************************************************)
(* entities.py: is_valid_canonical_name                                    *)
(***************************************************************************)
AnyPatternMatches(pats, name) ==
    \E k \in 1..Len(pats) : re_search(pats[k].re, pats[k].ic, name)

is_valid_canonical_name(name) ==
    IF name = "" \/ Len(name) < 2 THEN FALSE
    ELSE IF Len(name) < 3
            /\ ~ re_match(Cat(<<Bol, Rep(Cls(UpperSet \cup DigitSet), 2, 3), Eol>>), FALSE, name)
         THEN FALSE
    ELSE IF str_strip(str_lower(name)) \in ENTITY_STOPWORDS THEN FALSE
    ELSE IF str_strip(str_lower(name)) \in BLOCKLIST_EXACT THEN FALSE
    ELSE IF AnyPatternMatches(BLOCKLIST_PATTERNS, name) THEN FALSE
    ELSE IF AnyPatternMatches(GARBAGE_NAME_PATTERNS, name) THEN FALSE
    ELSE IF re_match(Cat(<<Bol, Plus(Cls(DigitSet)), Eol>>), FALSE, str_strip(name)) THEN FALSE
    ELSE TRUE

(***************************************************************************)
(* entities.py: EntityResolver.clean_name                                  *)
(***************************************************************************)
\* .strip().rstrip(",.")
StripTrailingPunct(name) == RStrip(str_strip(name), {",", "."})

\* for _ in range(3): one pass gave next from name
RECURSIVE StripLegalSuffixes(_, _)
SuffixPass(name, next, passes) ==
    IF next = name THEN name ELSE StripLegalSuffixes(next, passes - 1)

StripLegalSuffixes(name, passes) ==
    IF passes = 0 THEN name
    ELSE SuffixPass(name, StripTrailingPunct(re_sub_empty(LEGAL_SUFFIXES, TRUE, name)),
                    passes)

\* the case rule of the last step
NormalizeCase(name) ==
    IF str_isupper(name) \/ str_islower(name) THEN str_title(name) ELSE name

\* the steps of clean_name, each applied to the result of the one before
StripFragments(name)   == StripTrailingPunct(re_sub_empty(TRAILING_FRAGMENTS, TRUE, name))
StripDescriptors(name) == str_strip(re_sub_empty(LEADING_DESCRIPTORS, TRUE, name))
StripArticles(name)    == re_sub_empty(LEADING_ARTICLES, TRUE, name)
NormalizeWs(name)      == str_strip(CollapseWs(name, FALSE))

clean_name(raw) ==
    IF str_strip(raw) = "" THEN ""
    ELSE NormalizeCase(NormalizeWs(StripLegalSuffixes(
             StripArticles(StripDescriptors(StripFragments(str_strip(raw)))), 3)))

(***************************************************************************)
(* thefuzz.fuzz.token_sort_ratio (thefuzz on rapidfuzz): both strings are  *)
(* processed (every character that is not a letter or a digit becomes a    *)
(* space, lowercased, stripped), their tokens sorted and joined by one     *)
(* space, and the score is round(100 * 2 * LCS / (len1 + len2)).           *)
(***************************************************************************)
RECURSIVE NonAlnumToSpace(_)
NonAlnumToSpace(s) ==
    IF s = "" THEN ""
    ELSE (IF Head(s) \in UpperSet \cup LowerSet \cup DigitSet THEN Head(s) ELSE " ")
         \o NonAlnumToSpace(Tail(s))

full_process(s) == str_strip(str_lower(NonAlnumToSpace(s)))

\* str.split(): the maximal runs of non-space characters, in order
RECURSIVE SplitFrom(_, _, _)
SplitFrom(s, cur, acc) ==
    IF s = "" THEN (IF cur = "" THEN acc ELSE Append(acc, cur))
    ELSE IF Head(s) \in SpaceSet
         THEN SplitFrom(Tail(s), "", IF cur = "" THEN acc ELSE Append(acc, cur))
         ELSE SplitFrom(Tail(s), cur \o Head(s), acc)

str_split(s) == SplitFrom(s, "", <<>>)

\* code-point order of the characters compared by sorted()
SortChars == " " \o DigitChars \o UpperChars \o LowerChars
CharOrd == [c \in CharsOf(SortChars) |-> CHOOSE i \in 1..Len(SortChars) : Ch(SortChars, i) = c]

RECURSIVE StrLess(_, _)
StrLess(a, b) ==
    IF b = "" THEN FALSE
    ELSE IF a = "" THEN TRUE
    ELSE IF Head(a) = Head(b) THEN StrLess(Tail(a), Tail(b))
    ELSE CharOrd[Head(a)] < CharOrd[Head(b)]

RECURSIVE InsertSorted(_, _)
InsertSorted(tok, sorted) ==
    IF sorted = <<>> THEN <<tok>>
    ELSE IF StrLess(tok, Head(sorted)) THEN <<tok>> \o sorted
    ELSE <<Head(sorted)>> \o InsertSorted(tok, Tail(sorted))

RECURSIVE SortTokens(_)
SortTokens(toks) ==
    IF toks = <<>> THEN <<>> ELSE InsertSorted(Head(toks), SortTokens(Tail(toks)))

RECURSIVE JoinSpace(_)
JoinSpace(toks) ==
    IF toks = <<>> THEN ""
    ELSE IF Len(toks) = 1 THEN Head(toks)
    ELSE Head(toks) \o " " \o JoinSpace(Tail(toks))

\* one row of the longest-common-subsequence table: prev and the result are
\* indexed 1..Len(b)+1 (column j is stored at j + 1). The test on Len makes
\* TLC compute each row before it descends, which keeps its stack shallow.
RECURSIVE LcsRow(_, _, _, _, _)
LcsRow(prev, c, b, j, cur) ==
    IF j > Len(b) THEN cur
    ELSE LET v == IF c = Ch(b, j) THEN prev[j] + 1
                  ELSE IF prev[j + 1] >= cur[j] THEN prev[j + 1] ELSE cur[j]
             next == Append(cur, v)
         IN IF Len(next) = j + 1 THEN LcsRow(prev, c, b, j + 1, next) ELSE <<>>

RECURSIVE LcsRows(_, _, _, _)
LcsRows(a, b, i, prev) ==
    IF i > Len(a) THEN prev[Len(b) + 1]
    ELSE LET row == LcsRow(prev, Ch(a, i), b, 1, <<0>>)
         IN IF Len(row) = Len(b) + 1 THEN LcsRows(a, b, i + 1, row) ELSE -1

LcsLen(a, b) == LcsRows(a, b, 1, [j \in 1..(Len(b) + 1) |-> 0])

\* round(): to the nearest integer, a tie to the even one
RoundDiv(n, d) ==
    LET q == n \div d
        r == n % d
    IN IF 2 * r < d THEN q
       ELSE IF 2 * r > d THEN q + 1
       ELSE IF q % 2 = 0 THEN q ELSE q + 1

fuzz_ratio(a, b) ==
    IF Len(a) + Len(b) = 0 THEN 100
    ELSE RoundDiv(200 * LcsLen(a, b), Len(a) + Len(b))

token_sort_ratio(s1, s2) ==
    fuzz_ratio(JoinSpace(SortTokens(str_split(full_process(s1)))),
               JoinSpace(SortTokens(str_split(full_process(s2)))))

(***************************************************************************)
(* Optional values: None is the empty tuple, a present value v is <<v>>    *)
(***************************************************************************)
None == <<>>
Some(v) == <<v>>
IsSome(o) == o # <<>>
TheValue(o) == o[1]

(***************************************************************************)
(* press_release.py: PressReleaseExtractor                                 *)
(* The field extractors of patterns.py give the extractor an action type,  *)
(* a settlement amount (or None), the monetary components found, the       *)
(* defendants, statutes and categories; `fields` holds these results for   *)
(* one press release.                                                      *)
(***************************************************************************)
ActionTypes ==
    {"settlement", "lawsuit_filed", "consent_decree", "assurance_of_discontinuance",
     "judgment", "injunction", "other"}

AMOUNT_ELIGIBLE_TYPES ==
    {"settlement", "judgment", "consent_decree", "assurance_of_discontinuance"}

infer_status(action_type) ==
    IF action_type \in {"settlement", "consent_decree", "judgment"} THEN "settled"
    ELSE IF action_type = "lawsuit_filed" THEN "pending"
    ELSE IF action_type = "injunction" THEN "ongoing"
    ELSE "announced"

\* monetary_components.get(key)
DictGet(items, key) ==
    IF \E p \in items : p[1] = key THEN Some((CHOOSE p \in items : p[1] = key)[2]) ELSE None

\* a variant that attaches monetary terms whatever the action type is
monetary_terms_any_type(action_type, largest_amount, monetary_components) ==
    IF IsSome(largest_amount) \/ monetary_components # {}
    THEN Some([total_amount |-> IF IsSome(largest_amount)
                                THEN TheValue(largest_amount).amount ELSE 0,
               civil_penalty |-> DictGet(monetary_components, "civil_penalty"),
               consumer_restitution |-> DictGet(monetary_components, "consumer_restitution"),
               fees_and_costs |-> DictGet(monetary_components, "fees_and_costs"),
               amount_is_estimated |-> IF IsSome(largest_amount)
                                       THEN TheValue(largest_amount).is_estimated ELSE FALSE])
    ELSE None

\* extract, "Build monetary terms": the MonetaryTermsSchema or None
monetary_terms_of(action_type, largest_amount, monetary_components) ==
    IF action_type \in AMOUNT_ELIGIBLE_TYPES
       /\ (IsSome(largest_amount) \/ monetary_components # {})
    THEN Some([total_amount |-> IF IsSome(largest_amount)
                                THEN TheValue(largest_amount).amount ELSE 0,
               civil_penalty |-> DictGet(monetary_components, "civil_penalty"),
               consumer_restitution |-> DictGet(monetary_components, "consumer_restitution"),
               fees_and_costs |-> DictGet(monetary_components, "fees_and_costs"),
               amount_is_estimated |-> IF IsSome(largest_amount)
                                       THEN TheValue(largest_amount).is_estimated ELSE FALSE])
    ELSE None

Min(a, b) == IF a <= b THEN a ELSE b

\* a variant of the score that takes the defendant credit away when no
\* defendant was found
compute_quality_score_penalised(has_defendants, has_amount, has_category, has_statute, has_date, action_type, body_length) ==
    Min(100,
        (IF has_date THEN 15 ELSE 0)
      + (IF has_defendants THEN 25 ELSE -25)
      + (IF has_amount THEN 20
         ELSE IF action_type \in {"injunction", "lawsuit_filed"} THEN 10 ELSE 0)
      + (IF has_category THEN 15 ELSE 0)
      + (IF has_statute THEN 10 ELSE 0)
      + (IF body_length > 500 THEN 10 ELSE IF body_length > 200 THEN 5 ELSE 0)
      + (IF action_type # "other" THEN 5 ELSE 0))

\* a variant whose credit for a found amount is below the partial credit
compute_quality_score_small_amount_credit(has_defendants, has_amount, has_category, has_statute, has_date, action_type, body_length) ==
    Min(100,
        (IF has_date THEN 15 ELSE 0)
      + (IF has_defendants THEN 25 ELSE 0)
      + (IF has_amount THEN 5
         ELSE IF action_type \in {"injunction", "lawsuit_filed"} THEN 10 ELSE 0)
      + (IF has_category THEN 15 ELSE 0)
      + (IF has_statute THEN 10 ELSE 0)
      + (IF body_length > 500 THEN 10 ELSE IF body_length > 200 THEN 5 ELSE 0)
      + (IF action_type # "other" THEN 5 ELSE 0))

\* _compute_quality_score, in hundredths: min(1.0, round(score, 2))
compute_quality_score(has_defendants, has_amount, has_category, has_statute, has_date, action_type, body_length) ==
    Min(100,
        (IF has_date THEN 15 ELSE 0)
      + (IF has_defendants THEN 25 ELSE 0)
      + (IF has_amount THEN 20
         ELSE IF action_type \in {"injunction", "lawsuit_filed"} THEN 10 ELSE 0)
      + (IF has_category THEN 15 ELSE 0)
      + (IF has_statute THEN 10 ELSE 0)
      + (IF body_length > 500 THEN 10 ELSE IF body_length > 200 THEN 5 ELSE 0)
      + (IF action_type # "other" THEN 5 ELSE 0))

\* the keyword arguments extract passes to _compute_quality_score
quality_inputs(fields) ==
    [has_defendants |-> fields.defendants # <<>>,
     has_amount |-> IsSome(fields.largest_amount),
     has_category |-> \E k \in 1..Len(fields.categories) : fields.categories[k] # "other",
     has_statute |-> fields.statutes # <<>>,
     has_date |-> IsSome(fields.announced),
     action_type |-> fields.action_type,
     body_length |-> fields.body_length]

\* _compute_quality_score(**inputs)
quality_of(i) ==
    compute_quality_score(i.has_defendants, i.has_amount, i.has_category, i.has_statute,
                          i.has_date, i.action_type, i.body_length)

\* extract: the EnforcementActionSchema built from the extracted fields
extract(fields) ==
    [action_type |-> fields.action_type,
     status |-> infer_status(fields.action_type),
     is_multistate |-> fields.is_multistate,
     defendants |-> fields.defendants,
     violation_categories |-> fields.categories,
     statutes_cited |-> fields.statutes,
     monetary_terms |-> monetary_terms_of(fields.action_type, fields.largest_amount,
                                          fields.monetary_components),
     quality_score |-> quality_of(quality_inputs(fields))]

(***************************************************************************)
(* Inputs of the extractor specification                                   *)
(***************************************************************************)
\* body lengths around the two thresholds of the score
BodyLengths == {0, 200, 201, 500, 501}

ExtractedAmounts == {None, Some([amount |-> 5000, is_estimated |-> FALSE]),
                     Some([amount |-> 237000, is_estimated |-> TRUE])}

ComponentDicts == {{}, {<<"civil_penalty", 1000>>}}

FieldSets ==
    [action_type : ActionTypes,
     largest_amount : ExtractedAmounts,
     monetary_components : ComponentDicts,
     defendants : {<<>>, <<"Acme Widgets Corp">>},
     categories : {<<"other">>, <<"consumer_protection", "data_privacy">>},
     statutes : {<<>>, <<"CCPA">>},
     announced : {None, Some(100)},
     is_multistate : {FALSE},
     body_length : BodyLengths]

(***************************************************************************)
(* Bounds and inputs of the resolver specification                         *)
(***************************************************************************)
MaxReview == 3
MaxBatch  == 2

RawNames ==
    {"Google LLC", "google llc", "  Google   LLC  ", "Alphabet Inc", "Facebook",
     "", "claiming that the company", "business",
     "Facebok", "Googol", "Gogle Inc", "Acme Widgets Corp", "Widgets Acme",
     "3M", "CVS", "Rand", "Bran", "Brand"}

BatchNames == {"Facebok", "business"}

\* the raw names resolved over the lifetime of one resolver
LifetimeNames == {"Brand", "Brandt", "Brandts", "Rand", "Bran", "Google LLC", "Facebok", "Facebook", ""}

RECURSIVE SeqsUpTo(_, _)
SeqsUpTo(S, n) ==
    IF n = 0 THEN {<<>>}
    ELSE LET shorter == SeqsUpTo(S, n - 1)
         IN shorter \cup {Append(q, e) : q \in {r \in shorter : Len(r) = n - 1}, e \in S}

ConfigCanonicals == {ConfigAliases[k][2] : k \in 1..Len(ConfigAliases)}

\* Tables of the pure functions over the names of the model, so that each
\* value is computed once; outside the tables the function itself is used
\* f @@ <<>> is f with every value computed when the table is built
CleanMemo == [r \in RawNames \cup LifetimeNames |-> clean_name(r)] @@ <<>>

NameUniverse == ConfigCanonicals \cup {CleanMemo[r] : r \in RawNames \cup LifetimeNames}

ValidMemo == [n \in NameUniverse |-> is_valid_canonical_name(n)] @@ <<>>

ScoreTable(names) ==
    [a \in names |->
       [b \in names |-> token_sort_ratio(str_lower(a), str_lower(b))] @@ <<>>] @@ <<>>
ScoreMemo == ScoreTable(NameUniverse)

\* self.clean_name(raw_name)
Cleaned(raw) == CleanMemo[raw]
\* is_valid_canonical_name(cleaned)
IsValid(name) == ValidMemo[name]
\* fuzz.token_sort_ratio(a.lower(), b.lower())
NameScore(a, b) == ScoreMemo[a][b]

(***************************************************************************)
(* entities.py: EntityResolver                                             *)
(***************************************************************************)
\* _load_config: the alias table, as the set of its (lowered alias,
\* canonical) items; a later assignment to a key replaces the earlier one,
\* and every canonical name is then entered as its own alias
DictSet(items, key, val) == {p \in items : p[1] # key} \cup {<<key, val>>}

RECURSIVE LoadAliasEntries(_, _, _)
LoadAliasEntries(entries, k, items) ==
    IF k > Len(entries) THEN items
    ELSE LoadAliasEntries(entries, k + 1,
             DictSet(items, str_strip(str_lower(entries[k][1])), entries[k][2]))

RECURSIVE LoadOwnAliases(_, _)
LoadOwnAliases(canonicals, items) ==
    IF canonicals = {} THEN items
    ELSE LET c == CHOOSE d \in canonicals : TRUE
         IN LoadOwnAliases(canonicals \ {c}, DictSet(items, str_strip(str_lower(c)), c))

Aliases == LoadOwnAliases(ConfigCanonicals, LoadAliasEntries(ConfigAliases, 1, {}))
AliasKeys == {p[1] : p \in Aliases}
AliasTarget(key) == (CHOOSE p \in Aliases : p[1] = key)[2]

\* the "entities" mapping of entities.yaml
Metadata ==
    {<<"Google", [entity_type |-> "corporation", industry |-> "technology"]>>,
     <<"Meta", [entity_type |-> "corporation", industry |-> "social media"]>>}

\* _fuzzy_match: the (best_name, best_score) pairs the loop can return.  The
\* loop keeps the first canonical name with the highest score, and the
\* iteration order of a set of str is not fixed, so every name that attains
\* the highest score is a possible result.
fuzzy_candidates(cn, cleaned_name) ==
    {c \in cn : /\ Len(c) >= 4
                /\ 10 * Len(cleaned_name) >= 4 * Len(c)
                /\ 10 * Len(cleaned_name) <= 25 * Len(c)}

\* the (canonical, score) pairs the loop of _fuzzy_match computes
fuzzy_scores(cn, cleaned_name) ==
    {<<c, NameScore(cleaned_name, c)>> : c \in fuzzy_candidates(cn, cleaned_name)}

\* score > best_score, from best_score = 0: a pair with the highest score,
\* ("", 0) when no score is above 0
best_scored(scored, best) ==
    IF best = 0 THEN {<<"", 0>>} ELSE {m \in scored : m[2] = best}

highest_scored(scored) ==
    best_scored(scored, IF scored = {} THEN 0 ELSE SetMax({m[2] : m \in scored}))

fuzzy_match(cn, cleaned_name) ==
    IF cn = {} \/ Len(cleaned_name) < 4 THEN {<<"", 0>>}
    ELSE highest_scored(fuzzy_scores(cn, cleaned_name))

\* a variant of the alias lookup without Step 2 (the raw name)
alias_lookup_cleaned_only(cleaned, raw_name) ==
    IF str_lower(cleaned) \in AliasKeys THEN str_lower(cleaned) ELSE ""

\* Steps 1 and 2 of resolve: the alias key that hits, "" if none does
alias_lookup(cleaned, raw_name) ==
    IF str_lower(cleaned) \in AliasKeys THEN str_lower(cleaned)
    ELSE IF str_lower(str_strip(raw_name)) \in AliasKeys THEN str_lower(str_strip(raw_name))
    ELSE ""

ResolveResult(name, conf, cn, rq) == [name |-> name, conf |-> conf, cn |-> cn, rq |-> rq]

\* a variant of the fuzzy steps that keeps only the newest review entry
resolve_fuzzy_review_reset(cn, rq, raw_name, cleaned) ==
    {IF m[2] >= 85 THEN ResolveResult(m[1], m[2], cn, rq)
     ELSE IF m[2] >= 70
          THEN ResolveResult(cleaned, 50, cn \cup {cleaned}, <<<<raw_name, m[1], m[2]>>>>)
          ELSE ResolveResult(cleaned, 50, cn \cup {cleaned}, rq)
     : m \in fuzzy_match(cn, cleaned)}

\* a variant of the fuzzy steps that accepts every match of 70 or more
resolve_fuzzy_accept_from_70(cn, rq, raw_name, cleaned) ==
    {IF m[2] >= 70 THEN ResolveResult(m[1], m[2], cn, rq)
     ELSE ResolveResult(cleaned, 50, cn \cup {cleaned}, rq)
     : m \in fuzzy_match(cn, cleaned)}

\* Steps 3 and 4 of resolve: the possible results (canonical name,
\* confidence in hundredths) with the canonical-name set and the review
\* queue the call leaves behind
resolve_fuzzy(cn, rq, raw_name, cleaned) ==
    {IF m[2] >= 85 THEN ResolveResult(m[1], m[2], cn, rq)
     ELSE IF m[2] >= 70
          THEN ResolveResult(cleaned, 50, cn \cup {cleaned},
                             Append(rq, <<raw_name, m[1], m[2]>>))
          ELSE ResolveResult(cleaned, 50, cn \cup {cleaned}, rq)
     : m \in fuzzy_match(cn, cleaned)}

\* a variant of resolve without Step 0 (the validity check)
resolve_unvalidated(cn, rq, raw_name) ==
    LET cleaned == Cleaned(raw_name)
    IN IF cleaned = "" THEN {ResolveResult("", 0, cn, rq)}
       ELSE IF alias_lookup(cleaned, raw_name) # ""
            THEN {ResolveResult(AliasTarget(alias_lookup(cleaned, raw_name)), 100, cn, rq)}
       ELSE resolve_fuzzy(cn, rq, raw_name, cleaned)

\* a variant of resolve that tries the fuzzy match before the alias table
resolve_fuzzy_first(cn, rq, raw_name) ==
    LET cleaned == Cleaned(raw_name)
    IN IF cleaned = "" THEN {ResolveResult("", 0, cn, rq)}
       ELSE IF ~ IsValid(cleaned) THEN {ResolveResult("", 0, cn, rq)}
       ELSE IF \E m \in fuzzy_match(cn, cleaned) : m[2] >= 85
            THEN {ResolveResult(m[1], m[2], cn, rq) : m \in fuzzy_match(cn, cleaned)}
       ELSE IF alias_lookup(cleaned, raw_name) # ""
            THEN {ResolveResult(AliasTarget(alias_lookup(cleaned, raw_name)), 100, cn, rq)}
       ELSE resolve_fuzzy(cn, rq, raw_name, cleaned)

\* resolve after "cleaned = self.clean_name(raw_name)"
resolve_cleaned(cn, rq, raw_name, cleaned) ==
    IF cleaned = "" THEN {ResolveResult("", 0, cn, rq)}
    ELSE IF ~ IsValid(cleaned) THEN {ResolveResult("", 0, cn, rq)}
    ELSE IF alias_lookup(cleaned, raw_name) # ""
         THEN {ResolveResult(AliasTarget(alias_lookup(cleaned, raw_name)), 100, cn, rq)}
    ELSE resolve_fuzzy(cn, rq, raw_name, cleaned)

\* resolve
resolve(cn, rq, raw_name) == resolve_cleaned(cn, rq, raw_name, Cleaned(raw_name))

\* resolve_batch: resolve the names in order; each possible run gives the
\* list of (raw, canonical, confidence) and the state left behind
RECURSIVE resolve_batch(_, _, _, _)
resolve_batch(cn, rq, names, acc) ==
    IF names = <<>> THEN {[out |-> acc, cn |-> cn, rq |-> rq]}
    ELSE UNION {resolve_batch(r.cn, r.rq, Tail(names),
                              Append(acc, <<Head(names), r.name, r.conf>>))
                : r \in resolve(cn, rq, Head(names))}

\* self._metadata.get(canonical_name, {}): the empty dict is the empty record
get_metadata(canonical_name) ==
    IF \E p \in Metadata : p[1] = canonical_name
    THEN (CHOOSE p \in Metadata : p[1] = canonical_name)[2]
    ELSE <<>>

(***************************************************************************)
(* dedup.py: pairwise comparison of DedupCandidates                        *)
(* Dates are day numbers. A confidence is kept exact as a numerator over   *)
(* 1000 * date_window; the reported confidence, round(confidence, 3), is   *)
(* in thousandths.                                                         *)
(***************************************************************************)
DATE_WINDOW_DAYS == 30
MULTISTATE_DATE_WINDOW_DAYS == 730
DEFENDANT_SIMILARITY_THRESHOLD == 80

Abs(n) == IF n < 0 THEN -n ELSE n
Max(a, b) == IF a >= b THEN a ELSE b

\* the names and headlines of the candidates of the dedup specifications
DedupStrings ==
    {"Google", "Googol", "Meta", "Acme Widgets", "Widgets Acme",
     "Google Settles", "Settles Google", "Privacy Deal"}

DedupScoreMemo ==
    [a \in DedupStrings |->
        [b \in DedupStrings |-> token_sort_ratio(str_lower(a), str_lower(b))] @@ <<>>]
    @@ <<>>

\* fuzz.token_sort_ratio(a.lower(), b.lower())
lower_token_sort_ratio(a, b) ==
    IF a \in DedupStrings /\ b \in DedupStrings THEN DedupScoreMemo[a][b]
    ELSE token_sort_ratio(str_lower(a), str_lower(b))

\* _defendant_similarity: the best score over all pairs of names
defendant_similarity(defs_a, defs_b) ==
    SetMax({0} \cup {lower_token_sort_ratio(defs_a[i], defs_b[j]) :
                        i \in 1..Len(defs_a), j \in 1..Len(defs_b)})

\* _amounts_similar: min/max >= 0.9
amounts_similar(a, b) ==
    IF a = 0 \/ b = 0 THEN a = b
    ELSE 10 * Min(a, b) >= 9 * Max(a, b)

\* Decimal | None in a condition: None and Decimal 0 are both false
Truthy(amount) == IsSome(amount) /\ TheValue(amount) # 0

\* a variant that widens the window for every pair of multistate candidates
date_window_any_states(a, b) ==
    IF a.is_multistate /\ b.is_multistate
    THEN MULTISTATE_DATE_WINDOW_DAYS ELSE DATE_WINDOW_DAYS

\* _compare_pair, "Use wider date window when both are multistate"
date_window(a, b) ==
    IF a.is_multistate /\ b.is_multistate /\ a.state # b.state
    THEN MULTISTATE_DATE_WINDOW_DAYS ELSE DATE_WINDOW_DAYS

\* _compare_pair, "Calculate confidence": the numerator over 1000 * w, with
\* the reasons collected on the way (a reason is <<label, number>>)
pair_confidence(a, b, w, defendant_score) ==
    LET date_diff == Abs(a.date_announced - b.date_announced)
        date_part == 200 * Max(0, w - date_diff)
        exact == Truthy(a.total_amount) /\ Truthy(b.total_amount)
                 /\ TheValue(a.total_amount) = TheValue(b.total_amount)
        similar == Truthy(a.total_amount) /\ Truthy(b.total_amount) /\ ~ exact
                   /\ amounts_similar(TheValue(a.total_amount), TheValue(b.total_amount))
        amount_part == IF exact THEN 300 * w ELSE IF similar THEN 150 * w ELSE 0
        headline_score == lower_token_sort_ratio(a.headline, b.headline)
        headline_part == IF headline_score > 70 THEN headline_score * w ELSE 0
    IN [num |-> Min(1000 * w, 4 * defendant_score * w + date_part + amount_part + headline_part),
        reasons |-> <<<<"defendants", defendant_score>>, <<"date_diff", date_diff>>>>
                    \o (IF exact THEN <<<<"exact_amount_match", 0>>>>
                        ELSE IF similar THEN <<<<"similar_amount", 0>>>> ELSE <<>>)
                    \o (IF headline_score > 70 THEN <<<<"headline", headline_score>>>> ELSE <<>>)]

\* a variant that compares without looking at the defendants at all
compare_pair_ignoring_defendants(a, b) ==
    LET w == date_window(a, b)
    IN IF Abs(a.date_announced - b.date_announced) > w THEN None
       ELSE LET c == pair_confidence(a, b, w, 0)
            IN IF c.num < 500 * w THEN None
               ELSE Some([action_id_a |-> a.action_id,
                          action_id_b |-> b.action_id,
                          match_type |-> IF a.state # b.state
                                         THEN "multistate" ELSE "temporal",
                          confidence |-> RoundDiv(c.num, w),
                          reason |-> c.reasons])

\* _compare_pair: None, or the DedupMatch
compare_pair(a, b) ==
    LET w == date_window(a, b)
    IN IF Abs(a.date_announced - b.date_announced) > w THEN None
       ELSE IF a.defendants = <<>> \/ b.defendants = <<>> THEN None
       ELSE LET defendant_score == defendant_similarity(a.defendants, b.defendants)
            IN IF defendant_score < DEFENDANT_SIMILARITY_THRESHOLD THEN None
               ELSE LET c == pair_confidence(a, b, w, defendant_score)
                    IN IF c.num < 500 * w THEN None
                       ELSE Some([action_id_a |-> a.action_id,
                                  action_id_b |-> b.action_id,
                                  match_type |-> IF a.state # b.state
                                                 THEN "multistate" ELSE "temporal",
                                  confidence |-> RoundDiv(c.num, w),
                                  reason |-> c.reasons])

(***************************************************************************)
(* Inputs of the comparison specification: the first candidate is          *)
(* announced on day 31, the second one from 31 days earlier to 731 days    *)
(* later                                                                   *)
(***************************************************************************)
Amounts == {None, Some(0), Some(5000), Some(4600), Some(4400)}

FirstCandidates ==
    [action_id : {"a1"},
     state : {"CA"},
     date_announced : {31},
     defendants : {<<>>, <<"Google">>, <<"Acme Widgets", "Meta">>},
     total_amount : {None, Some(0), Some(5000)},
     headline : {"Google Settles", "Privacy Deal"},
     is_multistate : BOOLEAN]

SecondCandidates ==
    [action_id : {"a2"},
     state : {"CA", "NY"},
     date_announced : {0, 1, 31, 61, 62, 396, 397, 761, 762},
     defendants : {<<>>, <<"Google">>, <<"Googol">>, <<"Widgets Acme">>},
     total_amount : Amounts,
     headline : {"Settles Google", "Privacy Deal"},
     is_multistate : BOOLEAN]

(***************************************************************************)
(* dedup.py: find_duplicates and cluster_multistate_matches                *)
(***************************************************************************)
\* the pairs (i, j), i < j, in the order of the two nested loops
RECURSIVE compare_all(_, _, _, _)
compare_all(candidates, i, j, acc) ==
    IF i > Len(candidates) THEN acc
    ELSE IF j > Len(candidates) THEN compare_all(candidates, i + 1, i + 2, acc)
    ELSE LET match == compare_pair(candidates[i], candidates[j])
         IN compare_all(candidates, i, j + 1,
                        IF IsSome(match) THEN Append(acc, TheValue(match)) ELSE acc)

\* list.sort(key=confidence, reverse=True): stable, equal confidences keep
\* their order
RECURSIVE insert_by_confidence(_, _)
insert_by_confidence(m, sorted) ==
    IF sorted = <<>> THEN <<m>>
    ELSE IF Head(sorted).confidence >= m.confidence
         THEN <<Head(sorted)>> \o insert_by_confidence(m, Tail(sorted))
         ELSE <<m>> \o sorted

RECURSIVE sort_by_confidence(_, _)
sort_by_confidence(ms, acc) ==
    IF ms = <<>> THEN acc
    ELSE sort_by_confidence(Tail(ms), insert_by_confidence(Head(ms), acc))

find_duplicates(candidates) == sort_by_confidence(compare_all(candidates, 1, 2, <<>>), <<>>)

\* find(x) of the union-find, with its path halving: the root and the
\* parent dict after the call
RECURSIVE uf_find(_, _)
uf_find(parent, x) ==
    LET px == IF x \in DOMAIN parent THEN parent[x] ELSE x
    IN IF px = x THEN [root |-> x, parent |-> parent]
       ELSE LET gp == IF px \in DOMAIN parent THEN parent[px] ELSE px
            IN uf_find([parent EXCEPT ![x] = gp], gp)

\* a variant that hangs the first id itself, not its root, under the
\* second root
uf_union_links_node(parent, a, b) ==
    LET fa == uf_find(parent, a)
        fb == uf_find(fa.parent, b)
    IN IF fa.root # fb.root THEN (a :> fb.root) @@ fb.parent ELSE fb.parent

\* union(a, b): the parent dict after the call
uf_union(parent, a, b) ==
    LET fa == uf_find(parent, a)
        fb == uf_find(fa.parent, b)
    IN IF fa.root # fb.root THEN (fa.root :> fb.root) @@ fb.parent ELSE fb.parent

RECURSIVE union_all(_, _)
union_all(parent, ms_matches) ==
    IF ms_matches = <<>> THEN parent
    ELSE union_all(uf_union(parent, Head(ms_matches).action_id_a, Head(ms_matches).action_id_b),
                   Tail(ms_matches))

\* groups[find(aid)].append(aid) for the ids in the order given; groups is
\* the dict in insertion order, a sequence of [root, ids]
RECURSIVE group_by_root(_, _, _)
group_by_root(parent, order, groups) ==
    IF order = <<>> THEN groups
    ELSE LET f == uf_find(parent, Head(order))
             at == {k \in 1..Len(groups) : groups[k].root = f.root}
             added == IF at # {}
                      THEN [groups EXCEPT ![SetMin(at)].ids = Append(@, Head(order))]
                      ELSE Append(groups, [root |-> f.root, ids |-> <<Head(order)>>])
         IN group_by_root(f.parent, Tail(order), added)

SelectMatches(matches, type) == SelectSeq(matches, LAMBDA m : m.match_type = type)

\* all_ids: the ids named by the multistate matches
AllIds(ms_matches) ==
    {ms_matches[k].action_id_a : k \in 1..Len(ms_matches)}
        \cup {ms_matches[k].action_id_b : k \in 1..Len(ms_matches)}

\* cand_by_id: a later candidate with the same id replaces an earlier one
HasCandidate(candidates, aid) == \E k \in 1..Len(candidates) : candidates[k].action_id = aid
CandById(candidates, aid) ==
    candidates[SetMax({k \in 1..Len(candidates) : candidates[k].action_id = aid})]

\* sorted(set(...)) of strings
RECURSIVE SortedStrings(_)
SortedStrings(S) ==
    IF S = {} THEN <<>>
    ELSE LET least == CHOOSE x \in S : \A y \in S \ {x} : StrLess(x, y)
         IN <<least>> \o SortedStrings(S \ {least})

\* ", ".join(parts)
RECURSIVE JoinComma(_)
JoinComma(parts) ==
    IF parts = <<>> THEN ""
    ELSE IF Len(parts) = 1 THEN Head(parts)
    ELSE Head(parts) \o ", " \o JoinComma(Tail(parts))

\* min(cands, key=date_announced): the first of the earliest candidates
Earliest(cands) ==
    cands[SetMin({k \in 1..Len(cands) :
                    \A l \in 1..Len(cands) : cands[k].date_announced <= cands[l].date_announced})]

\* [cand_by_id[aid] for aid in group_ids if aid in cand_by_id]
RECURSIVE member_cands(_, _, _)
member_cands(candidates, group_ids, acc) ==
    IF group_ids = <<>> THEN acc
    ELSE member_cands(candidates, Tail(group_ids),
                      IF HasCandidate(candidates, Head(group_ids))
                      THEN Append(acc, CandById(candidates, Head(group_ids))) ELSE acc)

\* [c.action_id for c in cands]
RECURSIVE action_ids_of(_)
action_ids_of(cands) ==
    IF cands = <<>> THEN <<>> ELSE <<Head(cands).action_id>> \o action_ids_of(Tail(cands))

\* the MultistateCluster of one group; cands is not empty
build_cluster(cands, cluster_id) ==
    LET amounts == {TheValue(cands[k].total_amount) :
                       k \in {l \in 1..Len(cands) : Truthy(cands[l].total_amount)}}
        earliest == Earliest(cands)
        name_parts == SubSeq(earliest.defendants, 1, Min(2, Len(earliest.defendants)))
    IN [cluster_id |-> cluster_id,
        action_ids |-> action_ids_of(cands),
        states |-> SortedStrings({cands[k].state : k \in 1..Len(cands)}),
        lead_state |-> earliest.state,
        name |-> IF name_parts # <<>> THEN JoinComma(name_parts)
                 ELSE SubSeq(earliest.headline, 1, Min(80, Len(earliest.headline))),
        total_settlement |-> IF amounts # {} THEN Some(SetMax(amounts)) ELSE None]

\* "Build clusters": groups with fewer than two ids are skipped; min() of
\* an empty cands list raises ValueError, which ends the call
RECURSIVE build_clusters(_, _, _, _)
build_clusters(candidates, groups, uuids, acc) ==
    IF groups = <<>> THEN [raised |-> FALSE, clusters |-> acc]
    ELSE IF Len(Head(groups).ids) < 2 THEN build_clusters(candidates, Tail(groups), uuids, acc)
    ELSE LET cands == member_cands(candidates, Head(groups).ids, <<>>)
         IN IF cands = <<>> THEN [raised |-> TRUE, clusters |-> <<>>]
            ELSE build_clusters(candidates, Tail(groups), Tail(uuids),
                                Append(acc, build_cluster(cands, Head(uuids))))

\* the sequences that list every element of S once
RECURSIVE Perms(_)
Perms(S) ==
    IF S = {} THEN {<<>>}
    ELSE UNION {{<<x>> \o p : p \in Perms(S \ {x})} : x \in S}

\* uuid.uuid4(): ids no other cluster has
UUIDS == {"u1", "u2"}

\* cluster_multistate_matches: what the call can return. The ids of all_ids,
\* a set of str, are visited in an order that differs from run to run, and
\* the cluster ids are random.
cluster_multistate_matches(candidates, matches) ==
    LET ms_matches == SelectMatches(matches, "multistate")
    IN IF ms_matches = <<>> THEN {[raised |-> FALSE, clusters |-> <<>>]}
       ELSE LET parent == union_all(<<>>, ms_matches)
            IN {build_clusters(candidates, group_by_root(parent, order, <<>>), uuids, <<>>) :
                   order \in Perms(AllIds(ms_matches)), uuids \in Perms(UUIDS)}

(***************************************************************************)
(* dedup.py: link_multistate_actions.  A stored action is its row with the *)
(* Defendant rows its action_defendants lead to, as the query loads them.  *)
(***************************************************************************)
\* ad.defendant.canonical_name or ad.defendant.raw_name
name_of_defendant(defendant) ==
    IF defendant.canonical_name # "" THEN defendant.canonical_name ELSE defendant.raw_name

\* a variant of the list comprehension that takes the canonical names alone
RECURSIVE candidate_defendants_canonical(_)
candidate_defendants_canonical(action_defendants) ==
    IF action_defendants = <<>> THEN <<>>
    ELSE (IF Head(action_defendants).canonical_name # ""
          THEN <<Head(action_defendants).canonical_name>> ELSE <<>>)
         \o candidate_defendants_canonical(Tail(action_defendants))

\* [canonical_name or raw_name for ad in a.action_defendants
\*  if canonical_name or raw_name]
RECURSIVE candidate_defendants(_)
candidate_defendants(action_defendants) ==
    IF action_defendants = <<>> THEN <<>>
    ELSE (IF name_of_defendant(Head(action_defendants)) # ""
          THEN <<name_of_defendant(Head(action_defendants))>> ELSE <<>>)
         \o candidate_defendants(Tail(action_defendants))

\* "Build DedupCandidates" over the rows the query selects
\* (is_multistate == True), in the order of the rows
RECURSIVE build_candidates(_)
build_candidates(actions) ==
    IF actions = <<>> THEN <<>>
    ELSE (IF Head(actions).is_multistate
          THEN <<[action_id |-> Head(actions).id, state |-> Head(actions).state,
                  date_announced |-> Head(actions).date_announced,
                  defendants |-> candidate_defendants(Head(actions).action_defendants),
                  total_amount |-> Head(actions).total_amount,
                  headline |-> Head(actions).headline, is_multistate |-> TRUE]>>
          ELSE <<>>)
         \o build_candidates(Tail(actions))

\* "Link child actions": action.multistate_action_id = cluster.cluster_id
link_children(actions, found) ==
    [k \in 1..Len(actions) |->
       LET of == {c \in 1..Len(found) :
                     \E i \in 1..Len(found[c].action_ids) :
                        found[c].action_ids[i] = actions[k].id}
       IN IF of = {} THEN actions[k]
          ELSE [actions[k] EXCEPT !.multistate_action_id = Some(found[SetMax(of)].cluster_id)]]

(***************************************************************************)
(* Inputs of the clustering specification                                  *)
(***************************************************************************)
MaxMatches == 3

Candidate(id, st, day, defs, amount, head) ==
    [action_id |-> id, state |-> st, date_announced |-> day, defendants |-> defs,
     total_amount |-> amount, headline |-> head, is_multistate |-> TRUE]

CandCA == Candidate("a1", "CA", 0, <<"Google">>, Some(5000), "Google Settles")
CandNY == Candidate("a2", "NY", 400, <<"Google">>, Some(5000), "Settles Google")
CandTX == Candidate("a3", "TX", 800, <<"Google">>, Some(4600), "Google Settles")
CandWA == Candidate("a4", "WA", 100, <<"Meta">>, None, "Privacy Deal")
CandCA2 == Candidate("a5", "CA", 10, <<"Googol">>, Some(5000), "Settles Google")
CandOR == Candidate("a6", "OR", 1200, <<"Google">>, Some(0), "Google Settles")
CandNV == Candidate("a7", "NV", 1250, <<"Google">>, Some(0), "Google Settles")

\* the candidate lists whose matches are also built by hand
HandBuiltLists ==
    {<<CandCA, CandNY>>, <<CandCA, CandNY, CandTX>>, <<CandTX, CandCA, CandNY>>,
     <<CandNY, CandWA, CandCA2>>, <<CandCA, CandCA2, CandNY>>,
     <<CandWA, CandTX, CandNY, CandCA>>}

\* the candidate lists link_multistate_actions builds: ids are primary keys
CandidateLists ==
    HandBuiltLists \cup {<<CandOR, CandNV>>, <<CandOR, CandCA, CandTX, CandNY>>,
                         <<CandCA, CandCA2, CandWA, CandOR, CandNY, CandTX>>}

\* hand-built matches between candidates of the list, the earlier candidate
\* first, as find_duplicates builds them
MatchPool(candidates) ==
    {[action_id_a |-> candidates[p[1]].action_id, action_id_b |-> candidates[p[2]].action_id,
      match_type |-> t, confidence |-> 800, reason |-> <<>>] :
        p \in {q \in (1..Len(candidates)) \X (1..Len(candidates)) : q[1] < q[2]},
        t \in {"multistate", "temporal"}}

\* the lists and matches handed to cluster_multistate_matches as a function
\* of two lists: a match names any two ids, of the list or not
MaxAnyMatches == 2

AnyLists == {<<CandCA, CandNY>>, <<CandCA, CandNY, CandTX>>}

UnknownIds == <<"a8", "a9">>

AnyMatchPool(candidates) ==
    LET ids == action_ids_of(candidates) \o UnknownIds
    IN {[action_id_a |-> ids[p[1]], action_id_b |-> ids[p[2]],
         match_type |-> t, confidence |-> 800, reason |-> <<>>] :
           p \in {q \in (1..Len(ids)) \X (1..Len(ids)) : q[1] < q[2]},
           t \in {"multistate", "temporal"}}

\* the actions stored before the linking: the rows of three press releases
\* on one matter, announced days apart in three states, each stored with
\* the defendant mentions the extractor found in it
MaxLinked == 3

LinkedRows ==
    <<[id |-> "a1", state |-> "CA", date_announced |-> 0, headline |-> "Google Settles"],
      [id |-> "a2", state |-> "NY", date_announced |-> 10, headline |-> "Settles Google"],
      [id |-> "a3", state |-> "TX", date_announced |-> 20, headline |-> "Google Settles"],
      [id |-> "a4", state |-> "WA", date_announced |-> 30, headline |-> "Google Settles"]>>

MentionLists ==
    {<<>>, <<"business">>, <<"Google LLC">>, <<"business", "Google LLC">>,
     <<"claiming that the company">>, <<"Facebook">>}

(***************************************************************************)
(* filter.py: is_enforcement_action                                        *)
(* A text enters through what the patterns of the two stages find in it:   *)
(* override (a headline override pattern matches), enforcement_kw and      *)
(* non_enforcement_kw (a keyword occurs in the headline plus the first 500 *)
(* body characters), has_defendant, has_dollar, has_statute, has_court.    *)
(***************************************************************************)
\* _keyword_screen
keyword_screen(t) ==
    IF t.override THEN "reject"
    ELSE IF t.enforcement_kw THEN "pass"
    ELSE IF t.non_enforcement_kw THEN "reject"
    ELSE "ambiguous"

\* _pattern_validation
pattern_validation(t) ==
    t.has_defendant /\ (t.has_dollar \/ t.has_statute \/ t.has_court)

\* a variant of is_enforcement_action that accepts, flagged, a text that
\* passed the keyword screen and failed the pattern validation
is_enforcement_action_lenient(t) ==
    IF keyword_screen(t) = "reject" THEN [is_enforcement |-> FALSE, stage |-> "keyword_reject"]
    ELSE IF pattern_validation(t) \/ keyword_screen(t) = "pass"
         THEN [is_enforcement |-> TRUE, stage |-> "pattern_pass"]
         ELSE [is_enforcement |-> FALSE, stage |-> "pattern_reject"]

\* is_enforcement_action: the FilterResult
is_enforcement_action(t) ==
    LET screen == keyword_screen(t)
    IN IF screen = "reject" THEN [is_enforcement |-> FALSE, stage |-> "keyword_reject"]
       ELSE IF pattern_validation(t)
            THEN [is_enforcement |-> TRUE,
                  stage |-> IF screen = "pass" THEN "pattern_pass" ELSE "pattern_pass_ambiguous"]
       ELSE IF screen = "pass"
            THEN [is_enforcement |-> FALSE, stage |-> "keyword_pass_no_pattern"]
       ELSE [is_enforcement |-> FALSE, stage |-> "pattern_reject"]

(***************************************************************************)
(* The stored press releases of the pipeline specification                 *)
(* A stored record carries the kind of its scraped text; a kind fixes what *)
(* the filter patterns and the field extractors find in that text, whether *)
(* extract raises (the schema rejects a record with an empty headline),    *)
(* the date the listing gave and the                                       *)
(* date extract_announced_date finds.  Dates are yyyymmdd; amounts of      *)
(* money are in thousands of dollars throughout.                           *)
(***************************************************************************)
FALLBACK_DATE == 20220101
MAX_PLAUSIBLE_AMOUNT == 50000000
batch_size == 100

TextOf(override, enf, non_enf, def, dollar, statute, court) ==
    [override |-> override, enforcement_kw |-> enf, non_enforcement_kw |-> non_enf,
     has_defendant |-> def, has_dollar |-> dollar, has_statute |-> statute,
     has_court |-> court]

FieldsOf(type, amount, components, defs, cats, stats, multistate, len) ==
    [action_type |-> type, largest_amount |-> amount, monetary_components |-> components,
     defendants |-> defs, categories |-> cats, statutes |-> stats,
     is_multistate |-> multistate, body_length |-> len]

DocOf(raw, text, raises, listed, found, flds) ==
    [has_raw_text |-> raw, text |-> text, raises |-> raises, listing_date |-> listed,
     body_date |-> found, fields |-> flds]

DocKinds == {"alert", "commentary", "settlement", "lawsuit", "malformed", "unfetched"}

DocTable ==
    [k \in DocKinds |->
       CASE k = "alert" ->
              DocOf(TRUE, TextOf(FALSE, FALSE, TRUE, TRUE, TRUE, FALSE, FALSE), FALSE,
                    20240105, None,
                    FieldsOf("other", Some([amount |-> 1, is_estimated |-> FALSE]), {},
                             <<"Acme Widgets Corp">>, <<"consumer_protection">>, <<"CCPA">>,
                             FALSE, 501))
         [] k = "commentary" ->
              DocOf(TRUE, TextOf(FALSE, TRUE, FALSE, FALSE, TRUE, TRUE, FALSE), FALSE,
                    FALLBACK_DATE, Some(20240210),
                    FieldsOf("settlement", Some([amount |-> 5000, is_estimated |-> FALSE]),
                             {<<"civil_penalty", 1000>>}, <<"Google LLC">>,
                             <<"data_privacy">>, <<"CCPA">>, TRUE, 501))
         [] k = "settlement" ->
              DocOf(TRUE, TextOf(FALSE, TRUE, TRUE, TRUE, TRUE, TRUE, FALSE), FALSE,
                    20240301, Some(20240302),
                    FieldsOf("settlement", Some([amount |-> 5000, is_estimated |-> TRUE]),
                             {<<"civil_penalty", 1000>>}, <<"Google LLC", "business">>,
                             <<"data_privacy">>, <<"CCPA">>, TRUE, 501))
         [] k = "lawsuit" ->
              DocOf(TRUE, TextOf(FALSE, FALSE, FALSE, TRUE, FALSE, FALSE, TRUE), FALSE,
                    FALLBACK_DATE, Some(20230704),
                    FieldsOf("lawsuit_filed", None, {<<"civil_penalty", 1000>>},
                             <<"Facebok">>, <<"other">>, <<>>, FALSE, 150))
         [] k = "malformed" ->
              DocOf(TRUE, TextOf(FALSE, TRUE, FALSE, TRUE, FALSE, TRUE, FALSE), TRUE,
                    FALLBACK_DATE, None,
                    FieldsOf("other", None, {}, <<>>, <<"other">>, <<>>, FALSE, 0))
         [] k = "unfetched" ->
              DocOf(FALSE, TextOf(FALSE, TRUE, FALSE, FALSE, FALSE, FALSE, FALSE), FALSE,
                    20240105, None,
                    FieldsOf("other", None, {}, <<>>, <<"other">>, <<>>, FALSE, 0))]
    @@ <<>>

RecordIds == {"r1", "r2"}

\* the row the scraper stores for a press release of kind k
NewAction(k) ==
    [doc |-> k, date_announced |-> DocTable[k].listing_date, action_type |-> "other",
     status |-> "announced", is_multistate |-> FALSE, quality_score |-> 0]

\* the database after scraping: one action per stored press release, the
\* derived tables empty
ScrapedDb(kinds) ==
    [actions |-> [id \in RecordIds |-> NewAction(kinds[id])],
     defendants |-> <<>>, action_defendants |-> {}, monetary_terms |-> <<>>,
     violation_categories |-> <<>>, statutes_cited |-> <<>>]

ZeroStats ==
    [extracted |-> 0, filtered_out |-> 0, errors |-> 0, low_quality |-> 0,
     defendants_resolved |-> 0, defendants_new |-> 0, monetary_capped |-> 0]

\* what one orchestrator step works on: the tables, the counters, the
\* resolver's state and the calls made so far
Work(db, stats, cn, rq, calls) ==
    [db |-> db, stats |-> stats, cn |-> cn, rq |-> rq, calls |-> calls]

Bump(stats, key) == [stats EXCEPT ![key] = @ + 1]

\* extractor.extract(pr, date_announced=action.date_announced) for a row
extract_row(row) ==
    LET f == DocTable[row.doc].fields
    IN extract([action_type |-> f.action_type, largest_amount |-> f.largest_amount,
                monetary_components |-> f.monetary_components, defendants |-> f.defendants,
                categories |-> f.categories, statutes |-> f.statutes,
                announced |-> Some(row.date_announced),
                is_multistate |-> f.is_multistate, body_length |-> f.body_length])

(***************************************************************************)
(* scripts/bulk_extract.py                                                 *)
(***************************************************************************)
\* backfill_dates: a fallback date is replaced by the date found in the text
backfill_dates(actions) ==
    [id \in DOMAIN actions |->
        LET a == actions[id]
            found == DocTable[a.doc].body_date
        IN IF a.date_announced = FALLBACK_DATE /\ DocTable[a.doc].has_raw_text
              /\ IsSome(found) /\ TheValue(found) # FALLBACK_DATE
           THEN [a EXCEPT !.date_announced = TheValue(found)]
           ELSE a]

\* reset_extraction_data
reset_extraction_data(db) ==
    [db EXCEPT !.defendants = <<>>, !.action_defendants = {}, !.monetary_terms = <<>>,
               !.violation_categories = <<>>, !.statutes_cited = <<>>,
               !.actions = [id \in DOMAIN @ |->
                              IF DocTable[@[id].doc].has_raw_text
                              THEN [@[id] EXCEPT !.quality_score = 0] ELSE @[id]]]

\* the records a batch query selects: quality_score == 0.0, raw_text != ""
Unprocessed(db) ==
    {id \in DOMAIN db.actions :
        db.actions[id].quality_score = 0 /\ DocTable[db.actions[id].doc].has_raw_text}

\* .limit(batch_size): the rows a query returns
Limited(S) ==
    IF Cardinality(S) <= batch_size THEN {S}
    ELSE {T \in SUBSET S : Cardinality(T) = batch_size}

\* the MonetaryTerms row of an action
monetary_row(action_id, mt, capped) ==
    [action_id |-> action_id,
     total_amount |-> mt.total_amount,
     civil_penalty |-> mt.civil_penalty,
     consumer_restitution |-> mt.consumer_restitution,
     fees_and_costs |-> mt.fees_and_costs,
     amount_is_estimated |-> mt.amount_is_estimated \/ capped]

\* process_action, Step 4: the monetary_terms row and the capped counter
add_monetary_terms(w, action_id, result) ==
    IF result.monetary_terms = None THEN w
    ELSE LET mt == TheValue(result.monetary_terms)
             capped == mt.total_amount # 0 /\ mt.total_amount > MAX_PLAUSIBLE_AMOUNT
         IN [w EXCEPT !.stats = IF capped THEN Bump(@, "monetary_capped") ELSE @,
                      !.db.monetary_terms = Append(@, monetary_row(action_id, mt, capped))]

\* the ViolationCategory rows and the StatuteCited rows of one result
RECURSIVE category_rows(_, _)
category_rows(action_id, cats) ==
    IF cats = <<>> THEN <<>>
    ELSE <<[action_id |-> action_id, category |-> Head(cats)]>>
         \o category_rows(action_id, Tail(cats))

RECURSIVE statute_rows(_, _)
statute_rows(action_id, statutes) ==
    IF statutes = <<>> THEN <<>>
    ELSE <<[action_id |-> action_id, statute_raw |-> Head(statutes)]>>
         \o statute_rows(action_id, Tail(statutes))

\* metadata.get("entity_type", "corporation")
entity_type_of(canonical) ==
    IF \E m \in Metadata : m[1] = canonical
    THEN (CHOOSE m \in Metadata : m[1] = canonical)[2].entity_type
    ELSE "corporation"

\* process_action, Step 7: each defendant is resolved, counted and stored
\* with its junction row; the set of possible outcomes
RECURSIVE add_defendants(_, _, _)
add_defendants(w, action_id, names) ==
    IF names = <<>> THEN {w}
    ELSE UNION
      {add_defendants(
          [w EXCEPT !.cn = r.cn, !.rq = r.rq,
                    !.stats = IF r.conf >= 70 THEN Bump(@, "defendants_resolved")
                              ELSE Bump(@, "defendants_new"),
                    !.db.defendants = Append(@, [raw_name |-> Head(names),
                                                 canonical_name |-> r.name,
                                                 entity_type |-> entity_type_of(r.name)]),
                    !.db.action_defendants =
                        @ \cup {[action_id |-> action_id,
                                 defendant_id |-> Len(w.db.defendants) + 1,
                                 role |-> "primary"]}],
          action_id, Tail(names))
       : r \in resolve(w.cn, w.rq, Head(names))}

\* process_action, Step 3: the action's row takes the extracted fields
update_action(w, action_id, result) ==
    [w EXCEPT !.db.actions[action_id].action_type = result.action_type,
              !.db.actions[action_id].status = result.status,
              !.db.actions[action_id].is_multistate = result.is_multistate,
              !.db.actions[action_id].quality_score = result.quality_score]

\* process_action, Steps 5 and 6: the category rows and the statute rows
add_categories_and_statutes(w, action_id, result) ==
    [w EXCEPT !.db.violation_categories =
                  @ \o category_rows(action_id, result.violation_categories),
              !.db.statutes_cited =
                  @ \o statute_rows(action_id, result.statutes_cited)]

\* process_action, Steps 3 to 7 and the counters after them
store_result(w, action_id, result) ==
    {[raised |-> FALSE,
      w |-> [d EXCEPT !.stats =
                IF result.quality_score < 50
                THEN Bump(Bump(@, "extracted"), "low_quality")
                ELSE Bump(@, "extracted")]]
     : d \in add_defendants(
                add_categories_and_statutes(
                    add_monetary_terms(update_action(w, action_id, result),
                                       action_id, result),
                    action_id, result),
                action_id, result.defendants)}

\* process_action, Steps 2 to 7
extract_and_store(w, action_id) ==
    LET row == w.db.actions[action_id]
        called == [w EXCEPT !.calls = @ \cup {<<"extract", action_id>>}]
    IN IF DocTable[row.doc].raises THEN {[raised |-> TRUE, w |-> called]}
       ELSE store_result(called, action_id, extract_row(row))

\* the filter branch of process_action: the record is marked, nothing else
mark_filtered(w, action_id, score) ==
    [w EXCEPT !.stats = Bump(@, "filtered_out"),
              !.db.actions[action_id].quality_score = score,
              !.db.actions[action_id].action_type = "other"]

\* a variant that marks a filtered record and goes on to extract it
process_action_without_return(w, action_id) ==
    LET screened == [w EXCEPT !.calls = @ \cup {<<"filter", action_id>>}]
    IN IF ~ is_enforcement_action(DocTable[w.db.actions[action_id].doc].text).is_enforcement
       THEN extract_and_store(mark_filtered(screened, action_id, 15), action_id)
       ELSE extract_and_store(screened, action_id)

\* process_action: the possible outcomes, each the work state left behind
\* and whether the call raised
process_action(w, action_id) ==
    LET screened == [w EXCEPT !.calls = @ \cup {<<"filter", action_id>>}]
    IN IF ~ is_enforcement_action(DocTable[w.db.actions[action_id].doc].text).is_enforcement
       THEN {[raised |-> FALSE, w |-> mark_filtered(screened, action_id, 15)]}
       ELSE extract_and_store(screened, action_id)

\* a variant of the loop body whose except branch counts the error and
\* leaves the record as it was selected
process_in_batch_unmarked(w, action_id) ==
    {IF o.raised
     THEN [w EXCEPT !.calls = o.w.calls, !.cn = o.w.cn, !.rq = o.w.rq,
                    !.stats = Bump(o.w.stats, "errors")]
     ELSE o.w
     : o \in process_action(w, action_id)}

\* the body of the batch loop for one record: an exception raised before
\* the commit leaves the tables as they were; the record is marked 0.1
process_in_batch(w, action_id) ==
    {IF o.raised
     THEN [w EXCEPT !.calls = o.w.calls, !.cn = o.w.cn, !.rq = o.w.rq,
                    !.stats = Bump(o.w.stats, "errors"),
                    !.db.actions[action_id].quality_score = 10]
     ELSE o.w
     : o \in process_action(w, action_id)}

(***************************************************************************)
(* cli.py: the extract command                                             *)
(***************************************************************************)
\* a variant of the command's query without the test on quality_score
CliSelected_any_score(db, reprocess) ==
    {id \in DOMAIN db.actions : DocTable[db.actions[id].doc].has_raw_text}

\* the rows the command selects
CliSelected(db, reprocess) ==
    {id \in DOMAIN db.actions :
        /\ DocTable[db.actions[id].doc].has_raw_text
        /\ reprocess \/ db.actions[id].quality_score = 0}

\* "Store defendants": the defendant with that raw_name is found or created
\* and joined to the action unless it is joined already
RECURSIVE cli_store_defendants(_, _, _)
cli_store_defendants(db, action_id, names) ==
    IF names = <<>> THEN db
    ELSE LET at == {k \in 1..Len(db.defendants) : db.defendants[k].raw_name = Head(names)}
             defs == IF at # {} THEN db.defendants
                     ELSE Append(db.defendants, [raw_name |-> Head(names),
                                                 canonical_name |-> "",
                                                 entity_type |-> "corporation"])
             did == IF at # {} THEN SetMin(at) ELSE Len(defs)
             joined == \E j \in db.action_defendants :
                          j.action_id = action_id /\ j.defendant_id = did
         IN cli_store_defendants(
               [db EXCEPT !.defendants = defs,
                          !.action_defendants =
                              IF joined THEN @
                              ELSE @ \cup {[action_id |-> action_id, defendant_id |-> did,
                                            role |-> "primary"]}],
               action_id, Tail(names))

NotOf(action_id, rows) == SelectSeq(rows, LAMBDA r : r.action_id # action_id)

\* the command's loop body after extract returned result
cli_store_result(called, action_id, result) ==
                    LET db1 == [called.db EXCEPT
                                  !.actions[action_id].action_type = result.action_type,
                                  !.actions[action_id].status = result.status,
                                  !.actions[action_id].quality_score = result.quality_score,
                                  !.actions[action_id].is_multistate = result.is_multistate]
                        db2 == IF result.defendants = <<>> THEN db1
                               ELSE cli_store_defendants(
                                       [db1 EXCEPT !.action_defendants =
                                           {j \in @ : j.action_id # action_id}],
                                       action_id, result.defendants)
                        db3 == IF result.violation_categories = <<>> THEN db2
                               ELSE [db2 EXCEPT !.violation_categories =
                                        NotOf(action_id, @)
                                        \o category_rows(action_id,
                                                         result.violation_categories)]
                        db4 == [db3 EXCEPT
                                  !.monetary_terms =
                                      NotOf(action_id, @)
                                      \o (IF result.monetary_terms = None THEN <<>>
                                          ELSE <<monetary_row(action_id,
                                                              TheValue(result.monetary_terms),
                                                              FALSE)>>),
                                  !.statutes_cited =
                                      NotOf(action_id, @)
                                      \o statute_rows(action_id, result.statutes_cited)]
                    IN [called EXCEPT !.db = db4, !.stats = Bump(@, "extracted")]

\* the body of the command's loop for one record
cli_process(w, action_id) ==
    LET row == w.db.actions[action_id]
        screened == [w EXCEPT !.calls = @ \cup {<<"filter", action_id>>}]
    IN IF ~ is_enforcement_action(DocTable[row.doc].text).is_enforcement
       THEN mark_filtered(screened, action_id, 10)
       ELSE LET called == [screened EXCEPT !.calls = @ \cup {<<"extract", action_id>>}]
            IN IF DocTable[row.doc].raises THEN [called EXCEPT !.stats = Bump(@, "errors")]
               ELSE cli_store_result(called, action_id, extract_row(row))

(***************************************************************************)
(* Dollar amounts: extractors/patterns.py (extract_dollar_amounts).        *)
(* A Decimal is kept as [coef, exp], the number coef * 10^exp with coef    *)
(* not a multiple of ten: two Decimals are equal when these are.           *)
(***************************************************************************)
LetterSet == UpperSet \cup LowerSet

\* the parts of _DOLLAR_RE
DOLLAR_SIGN == Cat(<<Lit("$"), Ws0>>)
DOLLAR_NUMBER == Cat(<<Plus(Cls(DigitSet \cup {","})), Opt(Cat(<<Lit("."), Plus(Cls(DigitSet))>>))>>)
DOLLAR_MULTIPLIER ==
    Alt(<<Lit("million"), Lit("billion"), Lit("thousand"),
          Cat(<<Cls({"M", "B", "K", "m", "b", "k"}), NotAhead(Cls(LetterSet))>>)>>)

APPROX_RE ==
    Alt(<<Lit("approximately"), Lit("about"), Lit("roughly"), Lit("nearly"),
          Cat(<<Lit("up"), Ws1, Lit("to")>>), Cat(<<Lit("more"), Ws1, Lit("than")>>),
          Lit("over"), Cat(<<Lit("at"), Ws1, Lit("least")>>), Lit("exceed")>>)

APPROX_WINDOW == 40

\* the greedy match of a pattern whose greedy match is its longest one
LongestEnd(re, ic, s, i) == SetMax(Ends(re, ic, s, i))

Dec(coef, exp) == [coef |-> coef, exp |-> exp]

RECURSIVE DecNormal(_, _)
DecNormal(coef, exp) ==
    IF coef = 0 THEN Dec(0, 0)
    ELSE IF coef % 10 = 0 THEN DecNormal(coef \div 10, exp + 1) ELSE Dec(coef, exp)

DigitValue(c) == (CHOOSE i \in 1..10 : Ch(DigitChars, i) = c) - 1

RECURSIVE DigitsValue(_, _)
DigitsValue(digits, acc) ==
    IF digits = "" THEN acc ELSE DigitsValue(Tail(digits), acc * 10 + DigitValue(Head(digits)))

RECURSIVE str_remove(_, _)
\* s.replace(c, "")
str_remove(s, c) ==
    IF s = "" THEN "" ELSE (IF Head(s) = c THEN "" ELSE Head(s)) \o str_remove(Tail(s), c)

\* where the fraction of a number string starts: behind its point, or
\* behind its end
PointOf(num_str) ==
    IF \E i \in 1..Len(num_str) : Ch(num_str, i) = "."
    THEN CHOOSE i \in 1..Len(num_str) : Ch(num_str, i) = "."
    ELSE Len(num_str) + 1

\* Decimal(num_str) of a string of digits with at most one point: None is
\* InvalidOperation, raised for a string without a digit
decimal_of(num_str, point) ==
    IF num_str = "" THEN None
    ELSE Some(DecNormal(DigitsValue(SubSeq(num_str, 1, point - 1) \o SubSeq(num_str, point + 1, Len(num_str)), 0),
                        0 - (Len(num_str) - Min(point, Len(num_str)))))

\* _MULTIPLIERS.get(multiplier_word.lower(), 1) with thousand and K taken
\* for one
dollar_multiplier_without_thousand(word) ==
    CASE word \in {"million", "m"} -> 6
      [] word \in {"billion", "b"} -> 9
      [] OTHER -> 0

\* _MULTIPLIERS.get(multiplier_word.lower(), 1), as a power of ten
dollar_multiplier(word) ==
    CASE word \in {"thousand", "k"} -> 3
      [] word \in {"million", "m"} -> 6
      [] word \in {"billion", "b"} -> 9
      [] OTHER -> 0

\* value *= multiplier
dec_scale(value, power) == DecNormal(value.coef, value.exp + power)

\* "approximation language in the 40 chars before the match"
is_estimated_at(text, start) ==
    re_search(APPROX_RE, TRUE, SubSeq(text, IF start - APPROX_WINDOW < 1 THEN 1 ELSE start - APPROX_WINDOW, start - 1))

\* one ExtractedAmount, or nothing when Decimal(num_str) raises
extracted_amount(text, start, value, multiplier_word, end) ==
    IF value = None THEN <<>>
    ELSE <<[raw_text |-> SubSeq(text, start, end - 1),
            amount |-> IF multiplier_word = "" THEN TheValue(value)
                       ELSE dec_scale(TheValue(value), dollar_multiplier(str_lower(multiplier_word))),
            is_estimated |-> is_estimated_at(text, start)]>>

\* the match of _DOLLAR_RE that starts at position start, where a "$" is:
\* num_from..num_to-1 is group 1, mult_from..mult_to-1 is group 2
dollar_groups(text, start, num_from, num_to, mult_from, mult_to) ==
    [start |-> start, end |-> mult_to,
     found |-> extracted_amount(text, start,
                                decimal_of(str_remove(SubSeq(text, num_from, num_to - 1), ","),
                                           PointOf(str_remove(SubSeq(text, num_from, num_to - 1), ","))),
                                SubSeq(text, mult_from, mult_to - 1), mult_to)]

dollar_after_gap(text, start, num_from, num_to, mult_from) ==
    dollar_groups(text, start, num_from, num_to, mult_from,
                  IF Ends(DOLLAR_MULTIPLIER, TRUE, text, mult_from) = {} THEN mult_from
                  ELSE LongestEnd(DOLLAR_MULTIPLIER, TRUE, text, mult_from))

dollar_after_number(text, start, num_from, num_to) ==
    dollar_after_gap(text, start, num_from, num_to, LongestEnd(Ws0, TRUE, text, num_to))

dollar_after_sign(text, start, num_from) ==
    IF Ends(DOLLAR_NUMBER, TRUE, text, num_from) = {} THEN None
    ELSE Some(dollar_after_number(text, start, num_from, LongestEnd(DOLLAR_NUMBER, TRUE, text, num_from)))

\* _DOLLAR_RE.match(text, start - 1)
dollar_match(text, start) ==
    IF Ends(DOLLAR_SIGN, TRUE, text, start) = {} THEN None
    ELSE dollar_after_sign(text, start, LongestEnd(DOLLAR_SIGN, TRUE, text, start))

\* where a match of _DOLLAR_RE starts, at start or behind it
dollar_starts(text, start) ==
    {i \in start..Len(text) : Ch(text, i) = "$" /\ dollar_match(text, i) # None}

RECURSIVE dollar_finditer(_, _, _)
\* "for match in _DOLLAR_RE.finditer(text)" with the body of the loop
dollar_finditer(text, start, results) ==
    IF dollar_starts(text, start) = {} THEN results
    ELSE dollar_finditer(text, TheValue(dollar_match(text, SetMin(dollar_starts(text, start)))).end,
                         results \o TheValue(dollar_match(text, SetMin(dollar_starts(text, start)))).found)

extract_dollar_amounts(text) == dollar_finditer(text, 1, <<>>)

(***************************************************************************)
(* The texts handed to extract_dollar_amounts: one or two passages, each   *)
(* of some words, a "$", a number, a multiplier and some more words        *)
(***************************************************************************)
Filler == " from the company and its many owners"

Befores == {"", "required to pay ", "nearly ", "Approximately ", "recovered ", "nearly" \o SubSeq(Filler, 1, 33) \o " ", "nearly" \o SubSeq(Filler, 1, 34) \o " "}
NumberStrings == {"1.5", "3,500,000", "237", "500,000"}
MultiplierStrings == {"", " million", " thousand", " billion", "M", "K", "B", " m", "k", " Billion"}
Afters == {"", " in fines", " by order", "."}

Passages == [before : Befores, number : NumberStrings, multiplier : MultiplierStrings, after : Afters]
SecondPassages == [before : {" and ", " and later, after a second trial in the matter, "}, number : {"237", "1.5"}, multiplier : {"", " thousand"}, after : {""}]
FirstPassages == [before : {"nearly ", "pay "}, number : {"500,000"}, multiplier : {"", "M"}, after : {"", " in fines"}]

AmountTexts == {<<g>> : g \in Passages} \cup {<<g, h>> : g \in FirstPassages, h \in SecondPassages}

PassageText(g) == g.before \o "$" \o g.number \o g.multiplier \o g.after

RECURSIVE JoinPassages(_)
JoinPassages(gs) == IF gs = <<>> THEN "" ELSE PassageText(Head(gs)) \o JoinPassages(Tail(gs))

(***************************************************************************)
(* Action types: extractors/patterns.py (_ACTION_TYPE_PATTERNS,            *)
(* classify_action_type)                                                   *)
(***************************************************************************)
\* patterns separated by \s+
Ph(rs) == Cat([k \in 1..(2 * Len(rs) - 1) |-> IF k % 2 = 1 THEN rs[(k + 1) \div 2] ELSE Ws1])
\* stem followed by s?
Plural(stem) == Cat(<<Lit(stem), Opt(Lit("s"))>>)
\* \w+
WordRun == Plus(Cls(WordSet))
\* (?:[\w]+\s+){lo,hi}
WordsBefore(lo, hi) == Rep(Cat(<<WordRun, Ws1>>), lo, hi)
\* \b(?:...)\b
Bounded(alternatives) == Cat(<<Wb, Alt(alternatives), Wb>>)

CONSENT_DECREE_RE ==
    Bounded(<<Ph(<<Lit("consent"), Words(<<"decree", "order", "agreement">>)>>)>>)

ASSURANCE_RE ==
    Bounded(<<Ph(<<Lit("assurance"), Lit("of"),
                   Alt(<<Lit("discontinuance"), Phrase(<<"voluntary", "compliance">>)>>)>>),
              Lit("AOD")>>)

SETTLEMENT_RE ==
    Bounded(<<
        Cat(<<Lit("settl"), Words(<<"ed", "ement", "ements", "es", "ing">>)>>),
        Ph(<<Plural("agree"), Lit("to"), Lit("pay")>>),
        Phrase(<<"agreed", "to", "pay">>),
        Cat(<<Lit("reach"), Opt(Lit("es")), Ws1, Opt(Cat(<<Lit("a"), Opt(Lit("n")), Ws1>>)), Lit("agreement")>>),
        Cat(<<Lit("reached"), Ws1, Opt(Cat(<<Lit("a"), Opt(Lit("n")), Ws1>>)), Lit("agreement")>>),
        Ph(<<Plural("resolve"), Alt(<<Plural("claim"), Plural("charge"), Plural("allegation"), Lit("dispute"),
                                 Lit("investigation"), Lit("case")>>)>>),
        Lit("resolved"),
        Ph(<<Plural("pay"), Lit("fine")>>),
        Phrase(<<"paid", "fine">>),
        Ph(<<Plural("pay"), Lit("penalty")>>),
        Phrase(<<"consent", "judgment">>),
        Cat(<<Lit("recover"), Words(<<"s", "ed", "y", "ies">>)>>),
        Cat(<<Plural("secure"), Ws1,
              Opt(Alt(<<Cat(<<Phrase(<<"more", "than">>), Ws1>>), Cat(<<Lit("over"), Ws1>>),
                        Cat(<<Lit("nearly"), Ws1>>), Cat(<<Lit("approximately"), Ws1>>)>>)),
              Lit("$")>>),
        Ph(<<Plural("obtain"), Lit("$")>>),
        Ph(<<Plural("win"), Lit("$")>>),
        Cat(<<Plural("secure"), Ws1,
              Rep(Cat(<<Plus(Cls(WordSet \cup {"$", ".", ","})), Ws1>>), 0, 6),
              Alt(<<Lit("agreement"), Lit("settlement"), Phrase(<<"debt", "relief">>)>>)>>),
        Ph(<<Alt(<<Plural("end"), Lit("ending")>>), Words(<<"harmful", "illegal", "unlawful", "deceptive">>),
             WordRun, Plural("practice")>>),
        Ph(<<Plural("deliver"), Lit("$")>>),
        Ph(<<Lit("restitution"), Words(<<"in", "on">>), Lit("the")>>),
        Ph(<<Alt(<<Phrase(<<"on", "the", "way">>), Phrase(<<"in", "the", "mail">>)>>), Lit("to")>>),
        Ph(<<Plural("agree"), Lit("to"),
             Words(<<"remove", "stop", "halt", "cease", "reform", "change", "end", "eliminate",
                     "address", "provide", "destroy", "surrender">>)>>),
        Cat(<<Plural("distribute"), Ws1, Opt(Cat(<<Lit("over"), Ws1>>)), Lit("$")>>)>>)

JUDGMENT_RE ==
    Bounded(<<
        Plural("judgment"), Lit("verdict"), Lit("sentenced"), Lit("sentencing"), Lit("convicted"),
        Lit("conviction"), Ph(<<Plural("conviction"), Lit("of")>>),
        Ph(<<Plural("plead"), Lit("guilty")>>), Phrase(<<"pled", "guilty">>),
        Phrase(<<"guilty", "plea">>), Phrase(<<"guilty", "verdict">>),
        Ph(<<Lit("found"), Words(<<"guilty", "liable">>)>>),
        Cat(<<Ph(<<Lit("court"), Plural("order")>>), Wb>>),
        Ph(<<Lit("jury"), Alt(<<Lit("verdict"), Plural("find")>>)>>),
        Cat(<<Alt(<<Plural("secure"), Plural("win")>>), Ws1, WordsBefore(0, 3),
              Words(<<"victory", "ruling", "win", "review", "decision">>)>>),
        Cat(<<Plural("surrender"), Ws1, Opt(Cat(<<WordRun, Ws1>>)), Lit("license")>>),
        Ph(<<Lit("permanently"), Alt(<<Plural("shut"), Plural("bar"), Plural("ban"), Plural("close")>>)>>),
        Lit("arrested"),
        Cat(<<Opt(Cat(<<Plus(Cls(DigitSet)), Ws1>>)), Plural("arrest"), Ws1,
              Words(<<"for", "in", "of", "made">>)>>),
        Ph(<<Lit("court"), Alt(<<Plural("declare"), Plural("rule"), Plural("uphold"), Plural("affirm"), Lit("denies"),
                                 Ph(<<Plural("strike"), Lit("down")>>)>>)>>),
        Ph(<<Lit("judge"), Alt(<<Plural("dismisse"), Plural("rule"), Plural("order"), Plural("block"), Plural("uphold"),
                                 Plural("strike")>>)>>),
        Ph(<<Alt(<<Lit("appellate"), Ph(<<Plural("appeal"), Lit("court")>>)>>),
             Alt(<<Lit("decision"), Lit("ruling"), Plural("uphold"), Plural("affirm")>>)>>),
        Cat(<<Plural("block"), Ws1,
              Rep(Cat(<<WordRun, Ws0, Opt(Lit("'")), Opt(Lit("s")), Ws1>>), 0, 3),
              Words(<<"attempt", "motion", "request", "bid">>)>>)>>)

INJUNCTION_RE ==
    Bounded(<<
        Lit("injunction"), Phrase(<<"restraining", "order">>), Cat(<<Plural("TRO"), Wb>>),
        Phrase(<<"cease", "and", "desist">>),
        Ph(<<Cat(<<Lit("banne"), Opt(Lit("d"))>>), Lit("from")>>),
        Cat(<<Plural("ban"), Ws1, WordsBefore(1, 5), Lit("from")>>),
        Phrase(<<"temporarily", "blocked">>),
        Phrase(<<"preliminary", "injunction">>), Phrase(<<"permanent", "injunction">>),
        Phrase(<<"shut", "down">>), Ph(<<Plural("shut"), Lit("down")>>),
        Ph(<<Cat(<<Lit("ordere"), Opt(Lit("d"))>>), Lit("to"), Words(<<"halt", "stop", "cease">>)>>),
        Ph(<<Plural("order"), WordRun, Lit("to"), Words(<<"halt", "stop", "cease">>)>>),
        Cat(<<Plural("demand"), Ws1, WordsBefore(0, 4),
              Alt(<<Lit("halt"), Lit("stop"), Lit("cease"), Phrase(<<"immediate", "halt">>)>>)>>)>>)

LAWSUIT_FILED_RE ==
    Bounded(<<
        Cat(<<Alt(<<Plural("file"), Lit("filed")>>), Ws1, WordsBefore(0, 5),
              Alt(<<Lit("lawsuit"), Lit("complaint"), Lit("action"), Lit("suit"), Lit("litigation"),
                    Plural("charge"), Lit("petition")>>)>>),
        Cat(<<Plural("announce"), Ws1, WordsBefore(0, 3),
              Alt(<<Lit("lawsuit"), Lit("complaint"), Lit("suit"), Lit("litigation"),
                    Ph(<<Plural("charge"), Lit("against")>>), Lit("indictment")>>)>>),
        Cat(<<Plural("bring"), Ws1, Opt(Cat(<<Lit("a"), Ws1>>)),
              Alt(<<Lit("action"), Plural("charge"), Lit("suit"), Lit("complaint")>>)>>),
        Cat(<<Alt(<<Plural("take"), Lit("took")>>), Ws1, Opt(Cat(<<Lit("legal"), Ws1>>)), Lit("action"), Ws1,
              Alt(<<Lit("against"), Lit("to"), Cat(<<Lit("in"), Ws1>>)>>)>>),
        Ph(<<Cat(<<Lit("charge"), Opt(Lit("d"))>>), Lit("with")>>),
        Cat(<<Lit("facing"), Ws1, WordsBefore(0, 3), Lit("charges")>>),
        Cat(<<Plural("charge"), Ws1, WordsBefore(0, 5),
              Alt(<<Phrase(<<"in", "connection">>), Lit("defendant"), Lit("suspect"), Lit("individual")>>)>>),
        Plural("indict"), Lit("indicted"), Lit("indictment"),
        Cat(<<Alt(<<Cat(<<Lit("co"), Opt(Lit("-")), Plural("lead")>>), Plural("lead"), Plural("join")>>), Ws1,
              Rep(Cat(<<Plus(Cls(WordSet \cup {"-"})), Ws1>>), 0, 4),
              Words(<<"lawsuit", "litigation", "suit", "challenge">>)>>),
        Plural("sue"), Lit("sued"), Lit("suing"),
        Cat(<<Alt(<<Plural("file"), Plural("launche"), Plural("announce"), Plural("commence")>>), Ws1, WordsBefore(0, 3),
              Lit("investigation")>>),
        Cat(<<Plural("investigate"), Wb>>),
        Cat(<<Plural("seek"), Ws1, Lit("to"), Ws1,
              Alt(<<Lit("lead"), Cat(<<Lit("co"), Opt(Lit("-")), Lit("lead")>>)>>), Ws1,
              Star(Cls(WordSet \cup SpaceSet \cup {"-"})),
              Words(<<"lawsuit", "litigation", "suit">>)>>),
        Ph(<<Plural("appeal"), Words(<<"ruling", "decision", "order">>)>>),
        Ph(<<Plural("crack"), Lit("down")>>), Lit("crackdown"),
        Phrase(<<"enforcement", "action", "against">>),
        Ph(<<Plural("plead"), Lit("not"), Lit("guilty")>>),
        Cat(<<Alt(<<Plural("expand"), Plural("update")>>), Ws1, WordsBefore(0, 3),
              Words(<<"investigation", "lawsuit", "suit">>)>>)>>)

ACTION_TYPE_PATTERNS == <<
    <<"consent_decree", CONSENT_DECREE_RE>>,
    <<"assurance_of_discontinuance", ASSURANCE_RE>>,
    <<"settlement", SETTLEMENT_RE>>,
    <<"judgment", JUDGMENT_RE>>,
    <<"injunction", INJUNCTION_RE>>,
    <<"lawsuit_filed", LAWSUIT_FILED_RE>> >>

RECURSIVE first_matching(_, _, _)
\* "for action_type, pattern in _ACTION_TYPE_PATTERNS: if pattern.search(s):
\* return action_type", None when the loop ends
first_matching(patterns, k, str) ==
    IF k > Len(patterns) THEN None
    ELSE IF re_search(patterns[k][2], TRUE, str) THEN Some(patterns[k][1])
         ELSE first_matching(patterns, k + 1, str)

\* s[:n]
str_prefix(str, n) == SubSeq(str, 1, Min(n, Len(str)))

\* classify_action_type with the body consulted before the headline
classify_action_type_body_first(headline, body_text) ==
    IF IsSome(first_matching(ACTION_TYPE_PATTERNS, 1, str_prefix(body_text, 2000)))
    THEN TheValue(first_matching(ACTION_TYPE_PATTERNS, 1, str_prefix(body_text, 2000)))
    ELSE IF IsSome(first_matching(ACTION_TYPE_PATTERNS, 1, headline))
         THEN TheValue(first_matching(ACTION_TYPE_PATTERNS, 1, headline))
         ELSE "other"

classify_action_type(headline, body_text) ==
    IF IsSome(first_matching(ACTION_TYPE_PATTERNS, 1, headline))
    THEN TheValue(first_matching(ACTION_TYPE_PATTERNS, 1, headline))
    ELSE IF IsSome(first_matching(ACTION_TYPE_PATTERNS, 1, str_prefix(body_text, 2000)))
         THEN TheValue(first_matching(ACTION_TYPE_PATTERNS, 1, str_prefix(body_text, 2000)))
         ELSE IF IsSome(first_matching(ACTION_TYPE_PATTERNS, 1, str_prefix(body_text, 5000)))
              THEN TheValue(first_matching(ACTION_TYPE_PATTERNS, 1, str_prefix(body_text, 5000)))
              ELSE "other"

(***************************************************************************)
(* The settlement amount: extractors/patterns.py                           *)
(* (extract_settlement_amount, _is_non_settlement_context,                 *)
(* _fix_headline_spacing)                                                  *)
(***************************************************************************)
\* Decimal("30000000000")
MAX_SETTLEMENT == Dec(3, 10)

RECURSIVE NumDigits(_)
NumDigits(n) == IF n < 10 THEN 1 ELSE 1 + NumDigits(n \div 10)

RECURSIVE Pow10(_)
Pow10(k) == IF k = 0 THEN 1 ELSE 10 * Pow10(k - 1)

\* a <= b of two Decimals that are not negative
dec_le(a, b) ==
    IF a.coef = 0 THEN TRUE
    ELSE IF b.coef = 0 THEN FALSE
    ELSE IF NumDigits(a.coef) + a.exp # NumDigits(b.coef) + b.exp
         THEN NumDigits(a.coef) + a.exp < NumDigits(b.coef) + b.exp
         ELSE a.coef * Pow10(Max(NumDigits(a.coef), NumDigits(b.coef)) - NumDigits(a.coef))
                 <= b.coef * Pow10(Max(NumDigits(a.coef), NumDigits(b.coef)) - NumDigits(b.coef))

\* re.sub(pattern, r'\1 \2', s) with a space put behind each position of cuts
RECURSIVE insert_spaces(_, _)
insert_spaces(s, cuts) ==
    IF cuts = {} THEN s
    ELSE insert_spaces(SubSeq(s, 1, SetMax(cuts)) \o " " \o SubSeq(s, SetMax(cuts) + 1, Len(s)),
                       cuts \ {SetMax(cuts)})

\* ([a-z])([A-Z]): the matches cannot overlap
lower_upper_at(s) == {i \in 1..(Len(s) - 1) : Ch(s, i) \in LowerSet /\ Ch(s, i + 1) \in UpperSet}

\* (\d[MBKmbk])([A-Za-z]): the matches cannot overlap
glued_multiplier_at(s) ==
    {i \in 2..(Len(s) - 1) : /\ Ch(s, i - 1) \in DigitSet
                             /\ Ch(s, i) \in {"M", "B", "K", "m", "b", "k"}
                             /\ Ch(s, i + 1) \in LetterSet}

glued_multiplier_fixed(s) == insert_spaces(s, glued_multiplier_at(s))

fix_headline_spacing(headline) == glued_multiplier_fixed(insert_spaces(headline, lower_upper_at(headline)))

SETTLEMENT_KEYWORD ==
    Alt(<<Cat(<<Lit("settl"), Words(<<"ement", "ed", "es", "ing">>)>>),
          Cat(<<Lit("penalt"), Words(<<"y", "ies">>)>>),
          Lit("restitution"), Lit("judgment"), Phrase(<<"consent", "decree">>),
          Cat(<<Lit("pay"), Opt(Lit("ing"))>>)>>)

WORD_MULTIPLIER == Words(<<"million", "billion", "thousand">>)

\* _SETTLEMENT_CONTEXT_RE up to the number
SETTLEMENT_LEAD ==
    Cat(<<SETTLEMENT_KEYWORD, Ws1,
          Opt(Alt(<<Cat(<<Lit("of"), Ws1>>), Cat(<<Lit("totaling"), Ws1>>), Cat(<<Lit("worth"), Ws1>>),
                    Cat(<<Lit("value"), Opt(Lit("d")), Ws1, Lit("at"), Ws1>>), Cat(<<Lit("for"), Ws1>>)>>)),
          Opt(Cat(<<Alt(<<Lit("approximately"), Lit("about"), Lit("nearly"), Lit("over"),
                          Phrase(<<"more", "than">>), Phrase(<<"at", "least">>), Phrase(<<"up", "to">>)>>),
                    Ws1>>)),
          Lit("$"), Ws0>>)

NON_SETTLEMENT_CONTEXT_RE ==
    Alt(<<Lit("grant"), Lit("funding"), Lit("appropriat"), Lit("budget"), Phrase(<<"federal", "aid">>),
          Lit("allocat"), Lit("CDC"), Lit("HHS"), Lit("FEMA"),
          Ph(<<Lit("federal"), Plural("fund")>>),
          Ph(<<Lit("tax"), Words(<<"relief", "cut", "credit", "revenue">>)>>),
          Ph(<<Lit("government"), Words(<<"funding", "spending">>)>>),
          Lit("legislative"), Phrase(<<"executive", "order">>), Lit("stimulus"),
          Ph(<<Lit("infrastructure"), Words(<<"funding", "investment">>)>>),
          Cat(<<Lit("seiz"), Alt(<<Cat(<<Lit("e"), Opt(Lit("d"))>>), Lit("ure"), Lit("ing")>>)>>),
          Lit("fentanyl"), Lit("trafficking"), Lit("narcotic"), Lit("border"),
          Phrase(<<"gross", "domestic">>), Lit("GDP"), Lit("economy"),
          Ph(<<Lit("economic"), Words(<<"impact", "growth", "loss">>)>>),
          Lit("revenue"), Lit("sales"), Ph(<<Lit("market"), Words(<<"cap", "value">>)>>),
          Lit("stock"), Phrase(<<"share", "price">>),
          Ph(<<Lit("annual"), Words(<<"revenue", "budget", "sales">>)>>),
          Lit("industry"), Lit("sector"), Phrase(<<"student", "loan">>),
          Ph(<<Lit("debt"), Words(<<"forgiveness", "cancellation", "discharge">>)>>),
          Ph(<<Lit("would"), Words(<<"cause", "cost", "harm", "result", "lose", "destroy", "eliminate">>)>>),
          Lit("irreparable"), Lit("dismantl"), Lit("CFPB"),
          Phrase(<<"Consumer", "Financial", "Protection", "Bureau">>),
          Ph(<<Lit("proposed"), Words(<<"rule", "regulation", "legislation", "bill">>)>>),
          Lit("wage"), Ph(<<Lit("per"), Words(<<"hour", "day", "week", "month", "year">>)>>),
          Phrase(<<"hourly", "rate">>), Phrase(<<"minimum", "wage">>),
          Lit("initiative"), Phrase(<<"ballot", "measure">>), Lit("proposition"),
          Cat(<<Lit("I-"), Plus(Cls(DigitSet))>>),
          Ph(<<Cat(<<Lit("expose"), Opt(Lit("d"))>>), Lit("to")>>), Phrase(<<"risk", "of">>),
          Ph(<<Cat(<<Lit("face"), Opt(Cls({"s", "d"}))>>), Lit("up"), Lit("to")>>),
          Phrase(<<"could", "face">>),
          Ph(<<Lit("maximum"), Words(<<"penalty", "fine">>), Lit("of")>>),
          Ph(<<Lit("up"), Lit("to"), Lit("$")>>)>>)

NON_SETTLEMENT_WINDOW == 80

\* _NON_SETTLEMENT_CONTEXT_RE.search(context): every alternative begins
\* with a letter
non_settlement_search(context) ==
    \E i \in {j \in 1..Len(context) : Ch(context, j) \in LetterSet} :
        Ends(NON_SETTLEMENT_CONTEXT_RE, TRUE, context, i) # {}

\* _is_non_settlement_context; match_start counts from 1
is_non_settlement_context(text, match_start) ==
    non_settlement_search(SubSeq(text, Max(1, match_start - NON_SETTLEMENT_WINDOW),
                                 Min(Len(text), match_start + NON_SETTLEMENT_WINDOW - 1)))

\* s.find(sub), counted from 1; sub occurs in s
str_find(s, sub) ==
    SetMin({i \in 1..(Len(s) - Len(sub) + 1) : SubSeq(s, i, i + Len(sub) - 1) = sub})

\* the amounts that pass "not _is_non_settlement_context(text,
\* text.find(a.raw_text)) and a.amount <= _MAX_SETTLEMENT"
settlement_amounts(text, amounts) ==
    SelectSeq(amounts, LAMBDA a : /\ ~ is_non_settlement_context(text, str_find(text, a.raw_text))
                                  /\ dec_le(a.amount, MAX_SETTLEMENT))

\* max(amounts, key=lambda a: a.amount): the first of the largest
max_amount(amounts) ==
    amounts[SetMin({k \in 1..Len(amounts) :
                      \A l \in 1..Len(amounts) : dec_le(amounts[l].amount, amounts[k].amount)})]

\* "if not filtered: return None" and "return max(filtered, ...)"
largest_of(filtered) == IF filtered = <<>> THEN None ELSE Some(max_amount(filtered))

\* Priority 3
settlement_fallback(body_head) ==
    largest_of(settlement_amounts(body_head, extract_dollar_amounts(body_head)))

BODY_HEAD == 1500

\* the match of _SETTLEMENT_CONTEXT_RE that starts at start and has its
\* number at num_from..num_to-1 and its multiplier at mult_from..mult_to-1
context_groups(body, start, num_from, num_to, mult_from, mult_to) ==
    [start |-> start, end |-> mult_to,
     value |-> decimal_of(str_remove(SubSeq(body, num_from, num_to - 1), ","),
                          PointOf(str_remove(SubSeq(body, num_from, num_to - 1), ","))),
     multiplier_word |-> SubSeq(body, mult_from, mult_to - 1)]

context_after_gap(body, start, num_from, num_to, mult_from) ==
    context_groups(body, start, num_from, num_to, mult_from,
                   IF Ends(WORD_MULTIPLIER, TRUE, body, mult_from) = {} THEN mult_from
                   ELSE LongestEnd(WORD_MULTIPLIER, TRUE, body, mult_from))

context_after_number(body, start, num_from, num_to) ==
    context_after_gap(body, start, num_from, num_to, LongestEnd(Ws0, TRUE, body, num_to))

\* where the number of a match that starts at start can begin
context_numbers(body, start) ==
    {n \in Ends(SETTLEMENT_LEAD, TRUE, body, start) : Ends(DOLLAR_NUMBER, TRUE, body, n) # {}}

\* _SETTLEMENT_CONTEXT_RE.match(body, start - 1)
context_match(body, start) ==
    IF context_numbers(body, start) = {} THEN None
    ELSE Some(context_after_number(body, start, SetMax(context_numbers(body, start)),
                                   LongestEnd(DOLLAR_NUMBER, TRUE, body, SetMax(context_numbers(body, start)))))

\* where _SETTLEMENT_CONTEXT_RE matches: at the first letter of one of its
\* keywords
context_starts(body) ==
    {i \in 1..Len(body) : /\ Ch(body, i) \in {"s", "S", "p", "P", "r", "R", "j", "J", "c", "C"}
                          /\ context_match(body, i) # None}

context_value(m) ==
    IF m.multiplier_word = "" THEN TheValue(m.value)
    ELSE dec_scale(TheValue(m.value), dollar_multiplier(str_lower(m.multiplier_word)))

\* Priority 2 for the match m of _SETTLEMENT_CONTEXT_RE.search(body):
\* nothing when the context disqualifies it, Decimal raises or the value
\* is above the ceiling
settlement_in_context(body, m) ==
    IF is_non_settlement_context(body, m.start) \/ m.value = None THEN None
    ELSE IF ~ dec_le(context_value(m), MAX_SETTLEMENT) THEN None
    ELSE Some([raw_text |-> SubSeq(body, m.start, m.end - 1),
               amount |-> context_value(m),
               is_estimated |-> is_estimated_at(body, m.start)])

\* Priority 2, then Priority 3 when it returned nothing
settlement_after_context(body, in_context) ==
    IF in_context # None THEN in_context
    ELSE settlement_fallback(fix_headline_spacing(SubSeq(body, 1, Min(BODY_HEAD, Len(body)))))

settlement_from_body(body, starts) ==
    settlement_after_context(body,
        IF starts = {} THEN None
        ELSE settlement_in_context(body, TheValue(context_match(body, SetMin(starts)))))

\* Priority 1, for the headline after _fix_headline_spacing
settlement_after_headline(kept, body) ==
    IF kept # <<>> THEN Some(max_amount(kept)) ELSE settlement_from_body(body, context_starts(body))

settlement_from_headline(headline, body) ==
    settlement_after_headline(settlement_amounts(headline, extract_dollar_amounts(headline)), body)

\* extract_settlement_amount: None, or Some ExtractedAmount
extract_settlement_amount(headline, body) ==
    settlement_from_headline(fix_headline_spacing(headline), body)

(***************************************************************************)
(* The press releases handed to classify_action_type: a headline and a     *)
(* body of a first sentence, a run of dots and a last sentence             *)
(***************************************************************************)
Headlines == {
    "AG Sues ExxonMobil for Deceiving the Public",
    "AG Announces Settlement with Company X",
    "AG Enters Consent Decree with Polluter",
    "Company Signs Assurance of Discontinuance",
    "12 Defendants Sentenced in Fraud Scheme",
    "AG Secures Preliminary Injunction Against MV Realty",
    "AG Sues Over Broken Settlement",
    "AG Highlights Work in 2024",
    "AG Announces Action"}

Sentences == {
    "",
    "A summary of this year.",
    "The settlement requires the company to pay $5 million.",
    "The state sued the company."}

LastSentences == Sentences \cup {"The jury found the firm liable under a consent decree."}

Runs == {0, 1800, 2000, 4800, 5000}

RECURSIVE Dots(_)
Dots(n) ==
    IF n = 0 THEN ""
    ELSE IF n % 2 = 1 THEN "." \o Dots(n - 1)
         ELSE Dots(n \div 2) \o Dots(n \div 2)

Releases == [headline : Headlines, first : Sentences, run : Runs, last : LastSentences]

BodyOf(release) == release.first \o Dots(release.run) \o release.last

(***************************************************************************)
(* The press releases handed to extract_settlement_amount: a headline of   *)
(* up to two clauses and a body of up to two clauses, each clause some     *)
(* words, a "$", a number and a multiplier; the clauses of a body stand    *)
(* apart by a run of characters longer than the 80 of the context window   *)
(***************************************************************************)
Clause(words, number, multiplier) == [words |-> words, number |-> number, multiplier |-> multiplier]

HeadlineClauses ==
    {Clause("wins ", "5", " million"), Clause("wins ", "45", " billion"),
     Clause("grant of ", "168", " million"), Clause("wins ", "168", "M"),
     Clause("wins ", "30", " billion")}

HeadlineLists ==
    {<<>>} \cup {<<c>> : c \in HeadlineClauses}
        \cup {<<Clause("wins ", "5,000", ""), Clause("wins ", "5", " million")>>,
              <<Clause("wins ", "5", " million"), Clause("wins ", "45", " billion")>>,
              <<Clause("wins ", "5", " million"), Clause("grant of ", "168", " million")>>}

BodyClauses ==
    {Clause("fined ", "5", " million"), Clause("grant of ", "5", " million"),
     Clause("settlement of ", "2", " million"), Clause("penalty up to ", "168", " million"),
     Clause("settlement of ", "45", " billion"), Clause("fined ", "168", " million"),
     Clause("settlement of ", "168", "M"), Clause("fined ", "168", "M"),
     Clause("fined ", "45", " billion"), Clause("to pay ", "5,000", "")}

BodyRuns == {100, 1500}

SettlementTexts ==
    [headline : HeadlineLists, first : {None} \cup {Some(c) : c \in BodyClauses},
     run : BodyRuns, second : {None} \cup {Some(c) : c \in BodyClauses}]

ClauseText(c) == c.words \o "$" \o c.number \o c.multiplier

RECURSIVE HeadlineClausesText(_)
HeadlineClausesText(cs) ==
    IF cs = <<>> THEN "" ELSE " " \o ClauseText(Head(cs)) \o ";" \o HeadlineClausesText(Tail(cs))

HeadlineOf(release) == "AG Jones" \o HeadlineClausesText(release.headline)

BodyClauseText(oc) == IF oc = None THEN "" ELSE "The firm was " \o ClauseText(TheValue(oc)) \o "."

SettlementBodyOf(release) ==
    BodyClauseText(release.first) \o Dots(release.run) \o BodyClauseText(release.second) \o Dots(100)

(***************************************************************************)
(* The raw names handed to clean_name on its own: a name, written in        *)
(* capitals, in small letters or in mixed case, with or without an article *)
(* before it and a legal suffix behind it                                  *)
(***************************************************************************)
NameCores ==
    {"CVS", "3M", "IBM", "AT", "cvs", "Acme", "ACME", "acme", "GOOGLE", "exxonmobil",
     "Wells Fargo", "WELLS FARGO", "wells fargo", "JPMORGAN CHASE", "McKesson", "BP", "3m"}

NameLeads == {"", "The ", "  "}

NameTails == {"", " LLC", ", Inc.", " Corporation"}

NameTexts == [lead : NameLeads, core : NameCores, tail : NameTails]

RawNameOf(n) == n.lead \o n.core \o n.tail

(***************************************************************************)
(* The texts handed to is_enforcement_action on its own: where the first   *)
(* keyword of each list stands, and what the patterns of stage 2 find in   *)
(* the headline and the whole body                                         *)
(***************************************************************************)
Places == {"nowhere", "headline", "body_first_500", "body_later"}

FilterTexts == [override : BOOLEAN, enforcement_at : Places, non_enforcement_at : Places, has_defendant : BOOLEAN, has_dollar : BOOLEAN, has_statute : BOOLEAN, has_court : BOOLEAN]

\* combined = (headline + " " + body_text[:500]).lower(): what is in it
in_combined(place) == place \in {"headline", "body_first_500"}

\* what the two stages find in a text
found_in(doc) ==
    [override |-> doc.override,
     enforcement_kw |-> in_combined(doc.enforcement_at),
     non_enforcement_kw |-> in_combined(doc.non_enforcement_at),
     has_defendant |-> doc.has_defendant, has_dollar |-> doc.has_dollar,
     has_statute |-> doc.has_statute, has_court |-> doc.has_court]

(***************************************************************************)
(* The scrape command: cli.py (_scrape_state) over storage/database.py     *)
(***************************************************************************)
Urls == {"u1", "u2"}
\* what a detail page shows when it is fetched; a page may change between
\* two fetches
Titles == {"a", "b"}
MaxListing == 3
MaxScrapes == 2

ListItems == {[url |-> u] : u \in Urls}

\* Database.action_exists as an always-fresh table would answer it
action_exists_never(table, source_url) == FALSE

\* Database.action_exists
action_exists(table, source_url) ==
    \E i \in DOMAIN table : table[i].source_url = source_url

\* "Filter out already-scraped URLs"
new_items_of(table, items) ==
    SelectSeq(items, LAMBDA item : ~ action_exists(table, item.url))

\* session.add and session.commit of one EnforcementAction: source_url is
\* declared unique, so a second row with a stored URL raises IntegrityError
add_action(table, pr) ==
    IF \E i \in DOMAIN table : table[i].source_url = pr.url
    THEN [raised |-> TRUE, table |-> table]
    ELSE [raised |-> FALSE,
          table |-> Append(table, [source_url |-> pr.url, headline |-> pr.title,
                                   action_type |-> "other", status |-> "announced"])]

\* "Phase 3: Store in database": the loop over the fetched press releases;
\* an exception leaves it for the handler's outer except
RECURSIVE store_press_releases(_, _, _)
store_press_releases(table, press_releases, stored) ==
    IF press_releases = <<>> THEN [table |-> table, stored |-> stored, failed |-> FALSE]
    ELSE IF action_exists(table, Head(press_releases).url)
         THEN store_press_releases(table, Tail(press_releases), stored)
         ELSE IF add_action(table, Head(press_releases)).raised
              THEN [table |-> table, stored |-> stored, failed |-> TRUE]
              ELSE store_press_releases(add_action(table, Head(press_releases)).table,
                                        Tail(press_releases), stored + 1)

(***************************************************************************)
(* Bounds of the pipeline specification                                    *)
(***************************************************************************)
MaxRuns == 2

VARIABLES
    canonical_names,   \* EntityResolver._canonical_names
    review_queue,      \* EntityResolver._review_queue
    res,               \* the last call of the resolver's API and what it returned
    fields,            \* the extracted fields handed to PressReleaseExtractor.extract
    schema,            \* the EnforcementActionSchema it returned, None before the call
    pair,              \* the two DedupCandidates handed to _compare_pair
    verdict,           \* what _compare_pair returned for them
    candidates,        \* the DedupCandidates of one clustering
    matches,           \* the DedupMatches handed to cluster_multistate_matches
    clusters,          \* what cluster_multistate_matches returned
    db,                \* the database: enforcement_actions and the derived tables
    stats,             \* the counters of the current extraction run
    run,               \* the extraction run in progress and the records it still holds
    calls,             \* the calls of the filter and of the extractor made so far
    enforcement_actions, \* the enforcement_actions table the scrape command writes
    scrape,            \* the scrape run in progress: its listing and what it fetched
    text,              \* the arguments handed to a function of the text extractors
    returned           \* what the function returned, None before the call

resolverVars == <<canonical_names, review_queue, res>>
extractVars  == <<fields, schema>>
compareVars  == <<pair, verdict>>
clusterVars  == <<candidates, matches, clusters>>
pipelineVars == <<db, stats, run, calls>>
scrapeVars   == <<enforcement_actions, scrape>>
textVars     == <<text, returned>>
vars == <<canonical_names, review_queue, res, fields, schema, pair, verdict,
          candidates, matches, clusters, db, stats, run, calls,
          enforcement_actions, scrape, text, returned>>

NoCall == [op |-> "none", arg |-> "", out |-> <<>>]
NoVerdict == [done |-> FALSE, out |-> None]

\* the parts of the state a specification does not use
ResolverIdle == canonical_names = {} /\ review_queue = <<>> /\ res = NoCall
ExtractIdle  == fields = None /\ schema = None
CompareIdle  == pair = <<>> /\ verdict = NoVerdict
ClusterIdle  == candidates = <<>> /\ matches = None /\ clusters = None
PipelineIdle == db = <<>> /\ stats = <<>> /\ run = <<>> /\ calls = {}
ScrapeIdle   == enforcement_actions = <<>> /\ scrape = <<>>
TextIdle     == text = <<>> /\ returned = None

(***************************************************************************)
(* The resolver: one EntityResolver and the calls of its API               *)
(***************************************************************************)
\* EntityResolver.__init__
ResolverInit ==
    /\ canonical_names = ConfigCanonicals
    /\ review_queue = <<>>
    /\ res = NoCall
    /\ ExtractIdle /\ CompareIdle /\ ClusterIdle /\ PipelineIdle /\ ScrapeIdle /\ TextIdle

Resolve(raw_name) ==
    /\ \E r \in resolve(canonical_names, review_queue, raw_name) :
        /\ Len(r.rq) <= MaxReview
        /\ canonical_names' = r.cn
        /\ review_queue' = r.rq
        /\ res' = [op |-> "resolve", arg |-> raw_name, out |-> <<r.name, r.conf>>]
    /\ UNCHANGED <<extractVars, compareVars, clusterVars, pipelineVars, scrapeVars, textVars>>

ResolveBatch(names) ==
    /\ \E r \in resolve_batch(canonical_names, review_queue, names, <<>>) :
        /\ Len(r.rq) <= MaxReview
        /\ canonical_names' = r.cn
        /\ review_queue' = r.rq
        /\ res' = [op |-> "resolve_batch", arg |-> names, out |-> r.out]
    /\ UNCHANGED <<extractVars, compareVars, clusterVars, pipelineVars, scrapeVars, textVars>>

GetMetadata(canonical_name) ==
    /\ res' = [op |-> "get_metadata", arg |-> canonical_name, out |-> get_metadata(canonical_name)]
    /\ UNCHANGED <<canonical_names, review_queue>>
    /\ UNCHANGED <<extractVars, compareVars, clusterVars, pipelineVars, scrapeVars, textVars>>

GetReviewQueue ==
    /\ res' = [op |-> "get_review_queue", arg |-> "", out |-> review_queue]
    /\ UNCHANGED <<canonical_names, review_queue>>
    /\ UNCHANGED <<extractVars, compareVars, clusterVars, pipelineVars, scrapeVars, textVars>>

ResolverNext ==
    \/ \E raw_name \in RawNames : Resolve(raw_name)
    \/ \E names \in SeqsUpTo(BatchNames, MaxBatch) : ResolveBatch(names)
    \/ \E c \in {"Google", "Facebok", ""} : GetMetadata(c)
    \/ GetReviewQueue

SpecResolver == ResolverInit /\ [][ResolverNext]_vars

(***************************************************************************)
(* One resolver over its lifetime, with one raw name watched: text is the  *)
(* watched name with the order in which this process iterates a set of     *)
(* str (here by the names, upwards or downwards), and returned the first   *)
(* non-empty canonical name resolve returned for the watched name          *)
(***************************************************************************)
WatchedNames == {"Brand", "Brandt", "Facebok", "Google LLC"}

IterationOrders == {"upwards", "downwards"}

\* what tells two results of one call apart: the name _fuzzy_match returned
TiedName(r) == r.name \o "/" \o (IF r.rq = <<>> THEN "" ELSE r.rq[Len(r.rq)][2])

\* the result of the call in a process whose sets iterate in this order:
\* of the names that tie for the best score the loop keeps the first
first_in_order(results, order) ==
    {r \in results : \A q \in results :
        \/ TiedName(q) = TiedName(r)
        \/ IF order = "upwards" THEN StrLess(TiedName(r), TiedName(q))
           ELSE StrLess(TiedName(q), TiedName(r))}

LifetimeInit ==
    /\ canonical_names = ConfigCanonicals
    /\ review_queue = <<>>
    /\ res = NoCall
    /\ text \in [name : WatchedNames, order : IterationOrders]
    /\ returned = None
    /\ ExtractIdle /\ CompareIdle /\ ClusterIdle /\ PipelineIdle /\ ScrapeIdle

ResolveInLifetime(raw_name) ==
    /\ \E r \in first_in_order(resolve(canonical_names, review_queue, raw_name), text.order) :
        /\ Len(r.rq) <= MaxReview
        /\ canonical_names' = r.cn
        /\ review_queue' = r.rq
        /\ res' = [op |-> "resolve", arg |-> raw_name, out |-> <<r.name, r.conf>>]
        /\ returned' = IF raw_name = text.name /\ returned = None /\ r.name # "" THEN Some(r.name)
                       ELSE returned
    /\ UNCHANGED <<text, extractVars, compareVars, clusterVars, pipelineVars, scrapeVars>>

LifetimeNext == \E raw_name \in LifetimeNames : ResolveInLifetime(raw_name)

SpecLifetime == LifetimeInit /\ [][LifetimeNext]_vars

(***************************************************************************)
(* The extractor: extract applied to one set of extracted fields           *)
(***************************************************************************)
ExtractInit ==
    /\ fields \in {Some(f) : f \in FieldSets}
    /\ schema = None
    /\ ResolverIdle /\ CompareIdle /\ ClusterIdle /\ PipelineIdle /\ ScrapeIdle /\ TextIdle

Extract ==
    /\ schema = None
    /\ schema' = Some(extract(TheValue(fields)))
    /\ UNCHANGED <<fields, resolverVars, compareVars, clusterVars, pipelineVars, scrapeVars, textVars>>

ExtractNext == Extract

SpecExtract == ExtractInit /\ [][ExtractNext]_vars

(***************************************************************************)
(* The comparison: _compare_pair applied to one pair of candidates         *)
(***************************************************************************)
CompareInit ==
    /\ pair \in FirstCandidates \X SecondCandidates
    /\ verdict = NoVerdict
    /\ ResolverIdle /\ ExtractIdle /\ ClusterIdle /\ PipelineIdle /\ ScrapeIdle /\ TextIdle

\* the pair is compared in either order, as find_duplicates may meet it
ComparePair ==
    /\ ~ verdict.done
    /\ verdict' = [done |-> TRUE, out |-> compare_pair(pair[1], pair[2])]
    /\ UNCHANGED <<pair, resolverVars, extractVars, clusterVars, pipelineVars, scrapeVars, textVars>>

ComparePairSwapped ==
    /\ ~ verdict.done
    /\ pair' = <<pair[2], pair[1]>>
    /\ verdict' = [done |-> TRUE, out |-> compare_pair(pair[2], pair[1])]
    /\ UNCHANGED <<resolverVars, extractVars, clusterVars, pipelineVars, scrapeVars, textVars>>

CompareNext == ComparePair \/ ComparePairSwapped

SpecCompare == CompareInit /\ [][CompareNext]_vars

(***************************************************************************)
(* The clustering: the matches of one candidate list, found by             *)
(* find_duplicates or built by hand, handed to cluster_multistate_matches  *)
(***************************************************************************)
ClusterInit ==
    /\ candidates \in CandidateLists
    /\ matches = None
    /\ clusters = None
    /\ ResolverIdle /\ ExtractIdle /\ CompareIdle /\ PipelineIdle /\ ScrapeIdle /\ TextIdle

FindDuplicates ==
    /\ matches = None
    /\ matches' = Some(find_duplicates(candidates))
    /\ UNCHANGED <<candidates, clusters, resolverVars, extractVars, compareVars, pipelineVars, scrapeVars, textVars>>

GivenMatches ==
    /\ candidates \in HandBuiltLists
    /\ matches = None
    /\ \E ms \in SeqsUpTo(MatchPool(candidates), MaxMatches) : matches' = Some(ms)
    /\ UNCHANGED <<candidates, clusters, resolverVars, extractVars, compareVars, pipelineVars, scrapeVars, textVars>>

ClusterMatches ==
    /\ IsSome(matches)
    /\ clusters = None
    /\ \E out \in cluster_multistate_matches(candidates, TheValue(matches)) :
          clusters' = Some(out)
    /\ UNCHANGED <<candidates, matches, resolverVars, extractVars, compareVars, pipelineVars, scrapeVars, textVars>>

ClusterNext ==
    \/ FindDuplicates
    \/ GivenMatches
    \/ ClusterMatches

SpecCluster == ClusterInit /\ [][ClusterNext]_vars

(***************************************************************************)
(* cluster_multistate_matches called with any match list                   *)
(***************************************************************************)
ClusterAnyInit ==
    /\ candidates \in AnyLists
    /\ matches = None
    /\ clusters = None
    /\ ResolverIdle /\ ExtractIdle /\ CompareIdle /\ PipelineIdle /\ ScrapeIdle /\ TextIdle

GivenAnyMatches ==
    /\ matches = None
    /\ \E ms \in SeqsUpTo(AnyMatchPool(candidates), MaxAnyMatches) : matches' = Some(ms)
    /\ UNCHANGED <<candidates, clusters, resolverVars, extractVars, compareVars, pipelineVars, scrapeVars, textVars>>

ClusterAnyNext ==
    \/ GivenAnyMatches
    \/ ClusterMatches

SpecClusterAny == ClusterAnyInit /\ [][ClusterAnyNext]_vars

(***************************************************************************)
(* The linking: multistate-flagged or not, actions are stored with their   *)
(* resolved defendants by one run of run_extraction, then                  *)
(* link_multistate_actions runs over what is stored                        *)
(***************************************************************************)
LinkInit ==
    /\ db = [actions |-> <<>>]
    /\ canonical_names = ConfigCanonicals
    /\ review_queue = <<>>
    /\ res = NoCall
    /\ stats = <<>> /\ run = <<>> /\ calls = {}
    /\ ExtractIdle /\ CompareIdle /\ ClusterIdle /\ ScrapeIdle /\ TextIdle

\* process_action, Steps 3 and 7, for the next press release: the row takes
\* the multistate flag, each mention is resolved and stored as a Defendant
\* row with the canonical name the resolver returned
StoreAction(is_multistate, raw_names) ==
    /\ clusters = None
    /\ Len(db.actions) < MaxLinked
    /\ \E o \in resolve_batch(canonical_names, review_queue, raw_names, <<>>) :
          /\ db' = [db EXCEPT !.actions =
                       Append(@, LinkedRows[Len(db.actions) + 1] @@
                                 [is_multistate |-> is_multistate,
                                  total_amount |-> None,
                                  multistate_action_id |-> None,
                                  action_defendants |->
                                     [k \in 1..Len(o.out) |->
                                        [raw_name |-> o.out[k][1],
                                         canonical_name |-> o.out[k][2]]]])]
          /\ canonical_names' = o.cn
          /\ review_queue' = o.rq
    /\ UNCHANGED <<res, stats, run, calls, extractVars, compareVars, clusterVars, scrapeVars, textVars>>

\* link_multistate_actions
LinkMultistateActions ==
    /\ clusters = None
    /\ db.actions # <<>>
    /\ LET built == build_candidates(db.actions)
       IN IF built = <<>>
          THEN /\ clusters' = Some([raised |-> FALSE, clusters |-> <<>>])
               /\ UNCHANGED <<candidates, matches, db>>
          ELSE /\ candidates' = built
               /\ matches' = Some(find_duplicates(built))
               /\ \E out \in cluster_multistate_matches(built, find_duplicates(built)) :
                     /\ clusters' = Some(out)
                     /\ db' = IF out.raised THEN db
                              ELSE [db EXCEPT !.actions = link_children(@, out.clusters)]
    /\ UNCHANGED <<resolverVars, stats, run, calls, extractVars, compareVars, scrapeVars, textVars>>

LinkNext ==
    \/ \E is_multistate \in BOOLEAN, raw_names \in MentionLists :
          StoreAction(is_multistate, raw_names)
    \/ LinkMultistateActions

SpecLink == LinkInit /\ [][LinkNext]_vars

(***************************************************************************)
(* The pipeline: the stored press releases and the two extraction          *)
(* orchestrators, scripts/bulk_extract.py (run_extraction) and the extract *)
(* command of cli.py, run one after the other                              *)
(***************************************************************************)
Idle(n) == [mode |-> "idle", batch |-> {}, runs |-> n, reprocess |-> FALSE]

Init ==
    /\ \E kinds \in [RecordIds -> DocKinds] : db = ScrapedDb(kinds)
    /\ stats = ZeroStats
    /\ run = Idle(0)
    /\ calls = {}
    /\ canonical_names = {} /\ review_queue = <<>> /\ res = NoCall
    /\ ExtractIdle /\ CompareIdle /\ ClusterIdle /\ ScrapeIdle /\ TextIdle

OutsidePipeline == <<res, extractVars, compareVars, clusterVars, scrapeVars, textVars>>

\* run_extraction up to its first batch query: the dates are backfilled, a
\* reprocess run resets the derived data, a new EntityResolver is built
StartBulk(reprocess) ==
    /\ run.mode = "idle"
    /\ run.runs < MaxRuns
    /\ LET backfilled == [db EXCEPT !.actions = backfill_dates(@)]
           start == IF reprocess THEN reset_extraction_data(backfilled) ELSE backfilled
       IN /\ db' = start
          /\ canonical_names' = ConfigCanonicals
          /\ review_queue' = <<>>
          /\ IF Unprocessed(start) = {}
             THEN run' = Idle(run.runs + 1) /\ stats' = stats
             ELSE /\ \E batch \in Limited(Unprocessed(start)) :
                        run' = [mode |-> "bulk", batch |-> batch, runs |-> run.runs + 1,
                                reprocess |-> reprocess]
                  /\ stats' = ZeroStats
    /\ UNCHANGED <<calls, OutsidePipeline>>

\* one pass of "for action in actions", with its try and except
BulkProcess(action_id) ==
    /\ run.mode = "bulk"
    /\ action_id \in run.batch
    /\ \E w \in process_in_batch(Work(db, stats, canonical_names, review_queue, calls),
                                 action_id) :
          /\ db' = w.db
          /\ stats' = w.stats
          /\ canonical_names' = w.cn
          /\ review_queue' = w.rq
          /\ calls' = w.calls
    /\ run' = [run EXCEPT !.batch = @ \ {action_id}]
    /\ UNCHANGED OutsidePipeline

\* the next batch query of "while True": the run ends when it finds nothing
BulkNextBatch ==
    /\ run.mode = "bulk"
    /\ run.batch = {}
    /\ IF Unprocessed(db) = {}
       THEN run' = Idle(run.runs)
       ELSE \E batch \in Limited(Unprocessed(db)) : run' = [run EXCEPT !.batch = batch]
    /\ UNCHANGED <<db, stats, calls, canonical_names, review_queue, OutsidePipeline>>

\* the extract command up to its loop
StartCli(reprocess) ==
    /\ run.mode = "idle"
    /\ run.runs < MaxRuns
    /\ IF CliSelected(db, reprocess) = {}
       THEN run' = Idle(run.runs + 1) /\ stats' = stats
       ELSE /\ run' = [mode |-> "cli", batch |-> CliSelected(db, reprocess),
                       runs |-> run.runs + 1, reprocess |-> reprocess]
            /\ stats' = ZeroStats
    /\ UNCHANGED <<db, calls, canonical_names, review_queue, OutsidePipeline>>

\* one pass of the command's loop, with its try and except
CliProcess(action_id) ==
    /\ run.mode = "cli"
    /\ action_id \in run.batch
    /\ \E w \in {cli_process(Work(db, stats, canonical_names, review_queue, calls),
                               action_id)} :
          /\ db' = w.db
          /\ stats' = w.stats
          /\ calls' = w.calls
    /\ run' = [run EXCEPT !.batch = @ \ {action_id}]
    /\ UNCHANGED <<canonical_names, review_queue, OutsidePipeline>>

\* the command prints its counters and returns
CliFinish ==
    /\ run.mode = "cli"
    /\ run.batch = {}
    /\ run' = Idle(run.runs)
    /\ UNCHANGED <<db, stats, calls, canonical_names, review_queue, OutsidePipeline>>

Next ==
    \/ \E reprocess \in BOOLEAN : StartBulk(reprocess)
    \/ \E action_id \in RecordIds : BulkProcess(action_id)
    \/ BulkNextBatch
    \/ \E reprocess \in BOOLEAN : StartCli(reprocess)
    \/ \E action_id \in RecordIds : CliProcess(action_id)
    \/ CliFinish

Spec == Init /\ [][Next]_vars

\* the running loop passes one record: the record leaves the batch.  Of the
\* steps of Next these are the steps BulkProcess and CliProcess, which are
\* possible whenever a loop runs and has a record left
LoopPass ==
    /\ run.mode \in {"bulk", "cli"}
    /\ \E action_id \in run.batch : run' = [run EXCEPT !.batch = @ \ {action_id}]

\* the orchestrators as sequential programs: a loop that has a record left
\* goes on to it, and a loop whose batch is empty goes on to its next query
\* or to its end
SpecRun ==
    /\ Init /\ [][Next]_vars
    /\ WF_run(LoopPass)
    /\ WF_vars(BulkNextBatch)
    /\ WF_vars(CliFinish)

(***************************************************************************)
(* The scraping: the scrape command run again and again over listings      *)
(* that may repeat a URL                                                   *)
(***************************************************************************)
NoScrape(n) == [phase |-> "idle", items |-> <<>>, new_items |-> <<>>, press_releases |-> <<>>, errors |-> 0, stored |-> 0, failed |-> FALSE, runs |-> n]

ScrapeInit ==
    /\ enforcement_actions = <<>>
    /\ scrape = NoScrape(0)
    /\ ResolverIdle /\ ExtractIdle /\ CompareIdle /\ ClusterIdle /\ PipelineIdle /\ TextIdle

\* _scrape_state up to "Phase 2": the listing is fetched and its stored URLs
\* are filtered out
ScrapeListing(items) ==
    /\ scrape.phase = "idle"
    /\ scrape.runs < MaxScrapes
    /\ scrape' = [phase |-> "fetch", items |-> items,
                  new_items |-> new_items_of(enforcement_actions, items),
                  press_releases |-> <<>>, errors |-> 0, stored |-> 0, failed |-> FALSE,
                  runs |-> scrape.runs + 1]
    /\ UNCHANGED <<enforcement_actions, resolverVars, extractVars, compareVars, clusterVars, pipelineVars, textVars>>

\* one pass of "for item in new_items": scrape_detail returns the page
ScrapeDetail(title) ==
    /\ scrape.phase = "fetch"
    /\ Len(scrape.press_releases) + scrape.errors < Len(scrape.new_items)
    /\ LET item == scrape.new_items[Len(scrape.press_releases) + scrape.errors + 1]
       IN scrape' = [scrape EXCEPT !.press_releases = Append(@, [url |-> item.url, title |-> title])]
    /\ UNCHANGED <<enforcement_actions, resolverVars, extractVars, compareVars, clusterVars, pipelineVars, textVars>>

\* one pass of "for item in new_items": scrape_detail raises
ScrapeDetailFails ==
    /\ scrape.phase = "fetch"
    /\ Len(scrape.press_releases) + scrape.errors < Len(scrape.new_items)
    /\ scrape' = [scrape EXCEPT !.errors = @ + 1]
    /\ UNCHANGED <<enforcement_actions, resolverVars, extractVars, compareVars, clusterVars, pipelineVars, textVars>>

\* "Phase 3" to the end of _scrape_state
StorePressReleases ==
    /\ scrape.phase = "fetch"
    /\ Len(scrape.press_releases) + scrape.errors = Len(scrape.new_items)
    /\ \E out \in {store_press_releases(enforcement_actions, scrape.press_releases, 0)} :
          /\ enforcement_actions' = out.table
          /\ scrape' = [scrape EXCEPT !.phase = "idle", !.stored = out.stored, !.failed = out.failed]
    /\ UNCHANGED <<resolverVars, extractVars, compareVars, clusterVars, pipelineVars, textVars>>

ScrapeNext ==
    \/ \E items \in SeqsUpTo(ListItems, MaxListing) : ScrapeListing(items)
    \/ \E title \in Titles : ScrapeDetail(title)
    \/ ScrapeDetailFails
    \/ StorePressReleases

SpecScrape == ScrapeInit /\ [][ScrapeNext]_vars

(***************************************************************************)
(* The amounts: extract_dollar_amounts applied to one text                 *)
(***************************************************************************)
AmountsInit ==
    /\ text \in AmountTexts
    /\ returned = None
    /\ ResolverIdle /\ ExtractIdle /\ CompareIdle /\ ClusterIdle /\ PipelineIdle /\ ScrapeIdle

ExtractDollarAmounts ==
    /\ returned = None
    /\ returned' = Some(extract_dollar_amounts(JoinPassages(text)))
    /\ UNCHANGED <<text, resolverVars, extractVars, compareVars, clusterVars, pipelineVars, scrapeVars>>

AmountsNext == ExtractDollarAmounts

SpecAmounts == AmountsInit /\ [][AmountsNext]_vars

(***************************************************************************)
(* The settlement amount: extract_settlement_amount applied to one press   *)
(* release                                                                 *)
(***************************************************************************)
SettlementInit ==
    /\ text \in SettlementTexts
    /\ returned = None
    /\ ResolverIdle /\ ExtractIdle /\ CompareIdle /\ ClusterIdle /\ PipelineIdle /\ ScrapeIdle

ExtractSettlementAmount ==
    /\ returned = None
    /\ returned' = Some(extract_settlement_amount(HeadlineOf(text), SettlementBodyOf(text)))
    /\ UNCHANGED <<text, resolverVars, extractVars, compareVars, clusterVars, pipelineVars, scrapeVars>>

SettlementNext == ExtractSettlementAmount

SpecSettlement == SettlementInit /\ [][SettlementNext]_vars

(***************************************************************************)
(* Name cleaning: clean_name applied to one raw name                       *)
(***************************************************************************)
CleanNameInit ==
    /\ text \in NameTexts
    /\ returned = None
    /\ ResolverIdle /\ ExtractIdle /\ CompareIdle /\ ClusterIdle /\ PipelineIdle /\ ScrapeIdle

CleanName ==
    /\ returned = None
    /\ returned' = Some(clean_name(RawNameOf(text)))
    /\ UNCHANGED <<text, resolverVars, extractVars, compareVars, clusterVars, pipelineVars, scrapeVars>>

CleanNameNext == CleanName

SpecCleanName == CleanNameInit /\ [][CleanNameNext]_vars

(***************************************************************************)
(* The action type: classify_action_type applied to one press release      *)
(***************************************************************************)
ClassifyInit ==
    /\ text \in Releases
    /\ returned = None
    /\ ResolverIdle /\ ExtractIdle /\ CompareIdle /\ ClusterIdle /\ PipelineIdle /\ ScrapeIdle

ClassifyActionType ==
    /\ returned = None
    /\ returned' = Some(classify_action_type(text.headline, BodyOf(text)))
    /\ UNCHANGED <<text, resolverVars, extractVars, compareVars, clusterVars, pipelineVars, scrapeVars>>

ClassifyNext == ClassifyActionType

SpecClassify == ClassifyInit /\ [][ClassifyNext]_vars

(***************************************************************************)
(* The filter: is_enforcement_action applied to one text                   *)
(***************************************************************************)
FilterInit ==
    /\ text \in FilterTexts
    /\ returned = None
    /\ ResolverIdle /\ ExtractIdle /\ CompareIdle /\ ClusterIdle /\ PipelineIdle /\ ScrapeIdle

IsEnforcementAction ==
    /\ returned = None
    /\ returned' = Some(is_enforcement_action(found_in(text)))
    /\ UNCHANGED <<text, resolverVars, extractVars, compareVars, clusterVars, pipelineVars, scrapeVars>>

FilterNext == IsEnforcementAction

SpecFilter == FilterInit /\ [][FilterNext]_vars

(***************************************************************************)
(* Properties of the resolver                                              *)
(***************************************************************************)
IsPrefix(p, q) == Len(p) <= Len(q) /\ SubSeq(q, 1, Len(p)) = p

\* the cleaned form of raw is valid and the cleaned or the raw name is an
\* alias key
AliasHit(raw) ==
    /\ Cleaned(raw) # ""
    /\ IsValid(Cleaned(raw))
    /\ \/ str_lower(Cleaned(raw)) \in AliasKeys
       \/ str_lower(str_strip(raw)) \in AliasKeys

\* the alias target the table gives for raw: by the cleaned name first
AliasTargetOf(raw) ==
    IF str_lower(Cleaned(raw)) \in AliasKeys THEN AliasTarget(str_lower(Cleaned(raw)))
    ELSE AliasTarget(str_lower(str_strip(raw)))

\* the cleaned form of raw is empty or not a valid canonical name
Unresolvable(raw) == Cleaned(raw) = "" \/ ~ IsValid(Cleaned(raw))

\* C4: every resolve call on a name whose cleaned form is valid and whose
\* cleaned or raw lowercase form is an alias key returns (alias target, 1.0)
\* and leaves the canonical-name set and the review queue as they were, in
\* whatever state and however often it is called; "Google LLC" gives
\* ("Google", 1.0).
C4_AliasHitReturnsTarget ==
    [][(res'.op = "resolve" /\ AliasHit(res'.arg))
         => /\ res'.out = <<AliasTargetOf(res'.arg), 100>>
            /\ res'.arg = "Google LLC" => res'.out = <<"Google", 100>>
            /\ canonical_names' = canonical_names
            /\ review_queue' = review_queue]_vars

C4_Witness ==
    /\ res.op = "resolve" /\ res.arg = "Alphabet Inc" /\ res.out = <<"Google", 100>>
    /\ "Facebok" \in canonical_names

\* C5: every resolve call on a string whose cleaned form is empty or fails
\* is_valid_canonical_name returns ("", 0.0) and leaves the canonical-name
\* set and the review queue unchanged; "" and "claiming that the company"
\* are such strings.
C5_UnresolvableReturnsSentinel ==
    [][(res'.op = "resolve"
          /\ (Unresolvable(res'.arg) \/ res'.arg \in {"", "claiming that the company"}))
         => /\ res'.out = <<"", 0>>
            /\ canonical_names' = canonical_names
            /\ review_queue' = review_queue]_vars

C5_Witness ==
    /\ res.op = "resolve" /\ res.arg = "business" /\ res.out = <<"", 0>>
    /\ Cleaned("business") = "Business"
    /\ review_queue # <<>>

\* C9: no call of the resolver's API removes a canonical name or removes or
\* reorders a review-queue entry: the canonical-name set only grows and the
\* review queue is only appended to.
C9_ResolverStateOnlyGrows ==
    [][/\ canonical_names \subseteq canonical_names'
       /\ IsPrefix(review_queue, review_queue')]_vars

C9_Witness ==
    /\ Len(review_queue) >= 2
    /\ Cardinality(canonical_names \ ConfigCanonicals) >= 3
    /\ res.op = "resolve_batch"

\* another canonical name scores 85 or more against the cleaned form of raw
FuzzyRival(cn, raw) ==
    \E c \in fuzzy_candidates(cn, Cleaned(raw)) :
        c # AliasTargetOf(raw) /\ NameScore(Cleaned(raw), c) >= 85

\* C10: a resolve call on a valid name that hits the alias table returns the
\* alias target with confidence 1.0 even when another canonical name scores
\* 85 or more against the cleaned name; a result in the fuzzy range
\* (0.85 .. 0.99) is returned only when neither alias lookup hits.
C10_AliasOutranksFuzzy ==
    [][res'.op = "resolve"
         => /\ (AliasHit(res'.arg) /\ FuzzyRival(canonical_names, res'.arg))
                  => res'.out = <<AliasTargetOf(res'.arg), 100>>
            /\ (res'.out[2] >= 85 /\ res'.out[2] < 100) => ~ AliasHit(res'.arg)]_vars

C10_Witness ==
    /\ res.op = "resolve" /\ res.arg = "Facebook" /\ res.out = <<"Meta", 100>>
    /\ "Facebok" \in canonical_names
    /\ NameScore("Facebook", "Facebok") >= 85

(***************************************************************************)
(* Properties of the extractor                                             *)
(***************************************************************************)
\* C2: a record returned by extract has monetary_terms None whenever its
\* action type is lawsuit_filed, injunction or other, whatever amount or
\* monetary components were extracted; monetary terms are present only for
\* settlement, judgment, consent_decree and assurance_of_discontinuance.
C2_NoMonetaryTermsUnlessEligible ==
    IsSome(schema) =>
        /\ TheValue(schema).action_type \in {"lawsuit_filed", "injunction", "other"}
              => TheValue(schema).monetary_terms = None
        /\ IsSome(TheValue(schema).monetary_terms)
              => TheValue(schema).action_type \in
                   {"settlement", "judgment", "consent_decree", "assurance_of_discontinuance"}

C2_Witness ==
    /\ IsSome(schema)
    /\ TheValue(schema).action_type = "lawsuit_filed"
    /\ IsSome(TheValue(fields).largest_amount)
    /\ TheValue(fields).monetary_components # {}
    /\ TheValue(schema).monetary_terms = None

\* C3: the quality_score of a record returned by extract lies in [0.0, 1.0]
\* (0 .. 100 hundredths) for every combination of the inputs of
\* _compute_quality_score.
C3_QualityScoreInUnitInterval ==
    IsSome(schema) =>
        TheValue(schema).quality_score >= 0 /\ TheValue(schema).quality_score <= 100

C3_Witness ==
    /\ IsSome(schema)
    /\ TheValue(fields).body_length = 0
    /\ TheValue(fields).defendants = <<>>
    /\ TheValue(fields).action_type = "other"
    /\ TheValue(schema).quality_score = 0

\* the inputs that differ from i in one completeness input, changed from
\* absent to present: a flag from false to true, a longer body, a specific
\* action type instead of other
MoreComplete(i) ==
    {[i EXCEPT ![f] = TRUE] :
        f \in {g \in {"has_defendants", "has_amount", "has_category", "has_statute",
                      "has_date"} : ~ i[g]}}
    \cup {[i EXCEPT !.body_length = n] : n \in {m \in BodyLengths : m > i.body_length}}
    \cup {[i EXCEPT !.action_type = t] :
            t \in {u \in ActionTypes : i.action_type = "other" /\ u # "other"}}

\* C12: the quality score is monotone in completeness: changing one
\* completeness input of an extracted record from absent to present never
\* gives a lower score than the record's.
C12_QualityScoreMonotone ==
    IsSome(schema) =>
        \A j \in MoreComplete(quality_inputs(TheValue(fields))) :
            quality_of(j) >= TheValue(schema).quality_score

\* a lawsuit without an amount holds the partial credit; finding an amount
\* changes the credit
C12_Witness ==
    /\ IsSome(schema)
    /\ TheValue(fields).action_type = "lawsuit_filed"
    /\ TheValue(fields).largest_amount = None
    /\ TheValue(schema).quality_score
          < quality_of([quality_inputs(TheValue(fields)) EXCEPT !.has_amount = TRUE])

\* the credits of a score other than the amount credit, in hundredths
CreditsBesideAmount(i) ==
      (IF i.has_date THEN 15 ELSE 0)
    + (IF i.has_defendants THEN 25 ELSE 0)
    + (IF i.has_category THEN 15 ELSE 0)
    + (IF i.has_statute THEN 10 ELSE 0)
    + (IF i.body_length > 500 THEN 10 ELSE IF i.body_length > 200 THEN 5 ELSE 0)
    + (IF i.action_type # "other" THEN 5 ELSE 0)

\* C20: in the quality score of an extracted record the amount credit is
\* 0.20 only when an amount was recognized and the action type is
\* amount-eligible; injunction and lawsuit_filed receive 0.10; other
\* receives no amount credit.
C20_AmountCreditOnlyWhenEligible ==
    IsSome(schema) =>
        LET i == quality_inputs(TheValue(fields))
        IN TheValue(schema).quality_score - CreditsBesideAmount(i)
             = IF i.has_amount /\ i.action_type \in AMOUNT_ELIGIBLE_TYPES THEN 20
               ELSE IF i.action_type \in {"injunction", "lawsuit_filed"} THEN 10
               ELSE 0

(***************************************************************************)
(* Properties of the comparison                                            *)
(***************************************************************************)
DateGap == Abs(pair[1].date_announced - pair[2].date_announced)

SharedDefendant ==
    \E i \in 1..Len(pair[1].defendants), j \in 1..Len(pair[2].defendants) :
        pair[1].defendants[i] = pair[2].defendants[j]

\* C6: two candidates of different states, both multistate-flagged, sharing
\* a canonical defendant name, both carrying a total_amount with the two
\* amounts equal, announced at most 730 days apart, are matched by
\* _compare_pair as "multistate" with confidence >= 0.5.
C6_EqualAmountMultistateMatch ==
    (/\ verdict.done
     /\ pair[1].state # pair[2].state
     /\ pair[1].is_multistate /\ pair[2].is_multistate
     /\ SharedDefendant
     /\ IsSome(pair[1].total_amount) /\ IsSome(pair[2].total_amount)
     /\ TheValue(pair[1].total_amount) = TheValue(pair[2].total_amount)
     /\ DateGap <= 730)
    => /\ IsSome(verdict.out)
       /\ TheValue(verdict.out).match_type = "multistate"
       /\ TheValue(verdict.out).confidence >= 500

\* C7: a pair whose announcement dates differ by more than the applicable
\* window (30 days; 730 days only when both are multistate-flagged and their
\* states differ) gets no match from _compare_pair, whatever its defendants,
\* amounts and headlines are.
C7_OutsideWindowNoMatch ==
    (/\ verdict.done
     /\ DateGap > (IF pair[1].is_multistate /\ pair[2].is_multistate
                      /\ pair[1].state # pair[2].state
                   THEN 730 ELSE 30))
    => verdict.out = None

\* a same-state multistate pair 365 days apart that agrees on defendant,
\* amount and headline words
C7_Witness ==
    /\ verdict.done
    /\ verdict.out = None
    /\ DateGap = 365
    /\ pair[1].state = pair[2].state
    /\ pair[1].is_multistate /\ pair[2].is_multistate
    /\ SharedDefendant
    /\ Truthy(pair[1].total_amount) /\ pair[1].total_amount = pair[2].total_amount
    /\ lower_token_sort_ratio(pair[1].headline, pair[2].headline) = 100

\* C11: a pair in which at least one candidate has an empty defendants list
\* gets no match from _compare_pair, in either order, and find_duplicates
\* over the two candidates reports nothing.
C11_DefendantlessNeverMatches ==
    (verdict.done /\ (pair[1].defendants = <<>> \/ pair[2].defendants = <<>>))
    => /\ verdict.out = None
       /\ find_duplicates(<<pair[1], pair[2]>>) = <<>>

\* a defendant-less candidate compared with one that has a defendant, inside
\* the window, with equal non-zero amounts and the same headline words
C11_Witness ==
    /\ verdict.done
    /\ verdict.out = None
    /\ pair[1].defendants = <<>> /\ pair[2].defendants # <<>>
    /\ DateGap = 0
    /\ Truthy(pair[1].total_amount) /\ pair[1].total_amount = pair[2].total_amount
    /\ lower_token_sort_ratio(pair[1].headline, pair[2].headline) = 100

(***************************************************************************)
(* Properties of the clustering                                            *)
(***************************************************************************)
\* the ids a chain of multistate matches joins to the ids of S
RECURSIVE JoinedTo(_, _)
JoinedTo(S, ms) ==
    LET T == S \cup {ms[k].action_id_b : k \in {l \in 1..Len(ms) : ms[l].action_id_a \in S}}
                \cup {ms[k].action_id_a : k \in {l \in 1..Len(ms) : ms[l].action_id_b \in S}}
    IN IF T = S THEN S ELSE JoinedTo(T, ms)

MultistateEdges == SelectSeq(TheValue(matches), LAMBDA m : m.match_type = "multistate")

InOneCluster(x, y) ==
    \E k \in 1..Len(TheValue(clusters).clusters) :
        LET ids == TheValue(clusters).clusters[k].action_ids
        IN /\ \E i \in 1..Len(ids) : ids[i] = x
           /\ \E i \in 1..Len(ids) : ids[i] = y

\* C8: two action ids joined by a chain of "multistate" matches are placed
\* in the same cluster by cluster_multistate_matches, also when no match
\* joins them directly.
C8_ClusteringTransitive ==
    IsSome(clusters) =>
        /\ ~ TheValue(clusters).raised
        /\ \A x \in AllIds(MultistateEdges) :
              \A y \in JoinedTo({x}, MultistateEdges) : InOneCluster(x, y)

\* a1-a2 and a2-a3 were found by find_duplicates, a1-a3 was not, and the
\* three share a cluster
C8_Witness ==
    /\ IsSome(clusters)
    /\ TheValue(matches) = find_duplicates(candidates)
    /\ Len(TheValue(matches)) = 2
    /\ \A k \in 1..2 : {TheValue(matches)[k].action_id_a, TheValue(matches)[k].action_id_b}
                           # {"a1", "a3"}
    /\ InOneCluster("a1", "a3")

(***************************************************************************)
(* Properties of the pipeline                                              *)
(***************************************************************************)
Filtered(action_id) ==
    ~ is_enforcement_action(DocTable[db.actions[action_id].doc].text).is_enforcement

HasRows(d, action_id) ==
    \/ \E j \in d.action_defendants : j.action_id = action_id
    \/ \E k \in 1..Len(d.monetary_terms) : d.monetary_terms[k].action_id = action_id
    \/ \E k \in 1..Len(d.violation_categories) : d.violation_categories[k].action_id = action_id
    \/ \E k \in 1..Len(d.statutes_cited) : d.statutes_cited[k].action_id = action_id

\* C1: for a document for which is_enforcement_action returns
\* is_enforcement = false, neither orchestrator (process_action of
\* bulk_extract, the extract command of cli.py) ever invokes the extractor
\* and no defendant, monetary terms, violation category or statute row is
\* produced for it; processing it only marks the stored row as processed
\* (quality_score 0.15 or 0.1, action_type "other").
C1_FilteredNeverExtracted ==
    [][\A action_id \in RecordIds :
          Filtered(action_id) =>
             /\ <<"extract", action_id>> \notin calls'
             /\ ~ HasRows(db', action_id)
             /\ (action_id \in run.batch /\ action_id \notin run'.batch) =>
                   /\ db'.actions[action_id] =
                         [db.actions[action_id] EXCEPT
                             !.quality_score = IF run.mode = "bulk" THEN 15 ELSE 10,
                             !.action_type = "other"]
                   /\ [db' EXCEPT !.actions = db.actions] = db
                   /\ <<"filter", action_id>> \in calls']_vars

\* r1 was filtered out and marked by the bulk run while r2 was extracted
\* with its rows
C1_Witness ==
    /\ run.mode = "idle"
    /\ Filtered("r1")
    /\ <<"filter", "r1">> \in calls
    /\ db.actions["r1"].quality_score = 15
    /\ ~ Filtered("r2")
    /\ HasRows(db, "r2")
    /\ db.monetary_terms # <<>>

\* the record passes the filter and its extraction raises
Raises(action_id) ==
    ~ Filtered(action_id) /\ DocTable[db.actions[action_id].doc].raises

\* the loop of the running orchestrator has just handled the record
Handled(action_id) == action_id \in run.batch /\ action_id \notin run'.batch

\* C13: in both orchestrators an exception raised while one record is
\* processed is caught for that record alone: the error counter goes up by
\* one, the record is marked processed with a low non-zero quality_score,
\* the loop goes on with the remaining records, and the failed record is
\* not selected again by a later query for unprocessed records.
C13_FailedRecordMarkedNotRetried ==
    [][\A action_id \in RecordIds :
          (Handled(action_id) /\ Raises(action_id)) =>
              /\ stats'.errors = stats.errors + 1
              /\ db'.actions[action_id].quality_score > 0
              /\ db'.actions[action_id].quality_score < 50
              /\ run'.mode = run.mode
              /\ run'.batch = run.batch \ {action_id}
              /\ action_id \notin Unprocessed(db')
              /\ action_id \notin CliSelected(db', FALSE)]_vars

\* the rows derived for one action
RowsOf(d, action_id) ==
    [action_defendants |-> {j \in d.action_defendants : j.action_id = action_id},
     monetary_terms |-> SelectSeq(d.monetary_terms, LAMBDA r : r.action_id = action_id),
     violation_categories |->
         SelectSeq(d.violation_categories, LAMBDA r : r.action_id = action_id),
     statutes_cited |-> SelectSeq(d.statutes_cited, LAMBDA r : r.action_id = action_id)]

\* the fields of an action's row that extraction derives
DerivedFields(d, action_id) ==
    [action_type |-> d.actions[action_id].action_type,
     status |-> d.actions[action_id].status,
     is_multistate |-> d.actions[action_id].is_multistate,
     quality_score |-> d.actions[action_id].quality_score]

\* C14: a record that has been processed (quality_score # 0) is not
\* selected for the filter or the extractor again, and its derived fields
\* and rows stay as they are, in every step of run_extraction and of the
\* extract command that is not part of a run started with reprocess.
C14_NoAutomaticReprocessing ==
    [][\A action_id \in RecordIds :
          (/\ db.actions[action_id].quality_score # 0
           /\ ~ run.reprocess /\ ~ run'.reprocess) =>
              /\ action_id \notin run'.batch
              /\ DerivedFields(db', action_id) = DerivedFields(db, action_id)
              /\ RowsOf(db', action_id) = RowsOf(db, action_id)]_vars

\* a second run, started without reprocess, works on the record the first
\* run left unprocessed while the other record is processed and has rows
C14_Witness ==
    /\ run.runs = 2 /\ ~ run.reprocess
    /\ run.mode = "bulk" /\ run.batch = {"r2"}
    /\ db.actions["r1"].quality_score # 0
    /\ HasRows(db, "r1")

(***************************************************************************)
(* Properties of the scraping                                              *)
(***************************************************************************)
StoredUrls(table) == {table[i].source_url : i \in DOMAIN table}
OneRowPerUrl(table) == \A i, j \in DOMAIN table : table[i].source_url = table[j].source_url => i = j

\* C15: scraping is idempotent on source_url: whatever the scrape runs and
\* their listings, the table holds at most one row per source_url, a step
\* only appends rows and leaves every stored row as it was, and a listing
\* item whose URL is already stored is skipped, not fetched
C15_ScrapeIdempotentOnUrl ==
    [][/\ OneRowPerUrl(enforcement_actions')
       /\ IsPrefix(enforcement_actions, enforcement_actions')
       /\ Len(enforcement_actions') = Len(enforcement_actions) + (IF scrape'.phase = "idle" THEN scrape'.stored ELSE 0)
       /\ (scrape.phase = "idle" /\ scrape'.phase = "fetch") =>
             \A k \in DOMAIN scrape'.new_items :
                 scrape'.new_items[k].url \notin StoredUrls(enforcement_actions)]_vars

C15_Witness == scrape.phase = "idle" /\ scrape.runs = 1 /\ scrape.items = <<[url |-> "u1"], [url |-> "u1"]>> /\ scrape.press_releases = <<[url |-> "u1", title |-> "a"], [url |-> "u1", title |-> "b"]>> /\ enforcement_actions = <<[source_url |-> "u1", headline |-> "a", action_type |-> "other", status |-> "announced"]>>

(***************************************************************************)
(* Properties of the dollar amounts                                        *)
(***************************************************************************)
\* what the words of the specification give for a passage: the number, read
\* by hand, times the multiplier
NumberRead ==
    [n \in NumberStrings |->
        CASE n = "1.5" -> Dec(15, 0 - 1)
          [] n = "3,500,000" -> Dec(35, 5)
          [] n = "237" -> Dec(237, 0)
          [] n = "500,000" -> Dec(5, 5)]

PowerRead ==
    [m \in MultiplierStrings |->
        CASE m = "" -> 0
          [] m \in {" thousand", "K", "k"} -> 3
          [] m \in {" million", "M", " m"} -> 6
          [] m \in {" billion", "B", " Billion"} -> 9]

AmountRead(g) == Dec(NumberRead[g.number].coef, NumberRead[g.number].exp + PowerRead[g.multiplier])

ApproximationCues == {"approximately", "about", "roughly", "nearly", "up to", "more than", "over", "at least", "exceed"}

Occurs(cue, s) == \E i \in 1..Len(s) : i + Len(cue) - 1 <= Len(s) /\ SubSeq(s, i, i + Len(cue) - 1) = cue

\* the characters of s before position i, at most n of them
LastBefore(s, i, n) == SubSeq(s, IF i - n < 1 THEN 1 ELSE i - n, i - 1)

\* where the "$" of passage k stands in the joined text
DollarAt(gs, k) == Len(JoinPassages(SubSeq(gs, 1, k - 1))) + Len(gs[k].before) + 1

CueBefore(gs, k) ==
    \E cue \in ApproximationCues : Occurs(cue, str_lower(LastBefore(JoinPassages(gs), DollarAt(gs, k), 40)))

\* C16: extract_dollar_amounts returns one amount for every "$<number>
\* <multiplier>" of the text, in order, its value the number times the
\* multiplier (1 when absent, 10^3 thousand/K, 10^6 million/M, 10^9
\* billion/B, commas ignored), estimated exactly when an approximation cue
\* occurs in the 40 characters before the "$"
C16_AmountsParsed ==
    IsSome(returned) =>
        /\ Len(TheValue(returned)) = Len(text)
        /\ \A k \in DOMAIN text :
              /\ TheValue(returned)[k].amount = AmountRead(text[k])
              /\ TheValue(returned)[k].is_estimated = CueBefore(text, k)

C16_Witness == IsSome(returned) /\ text = <<[before |-> "nearly ", number |-> "237", multiplier |-> " million", after |-> ""]>> /\ TheValue(returned) = <<[raw_text |-> "$237 million", amount |-> Dec(237, 6), is_estimated |-> TRUE]>>

(***************************************************************************)
(* Properties of the action type                                           *)
(***************************************************************************)
TypeOrder == <<"consent_decree", "assurance_of_discontinuance", "settlement", "judgment", "injunction", "lawsuit_filed">>

\* the types whose patterns a reader finds in each headline and sentence
TypesRead ==
    [str \in Headlines \cup LastSentences |->
        CASE str = "AG Sues ExxonMobil for Deceiving the Public" -> {"lawsuit_filed"}
          [] str = "AG Announces Settlement with Company X" -> {"settlement"}
          [] str = "AG Enters Consent Decree with Polluter" -> {"consent_decree"}
          [] str = "Company Signs Assurance of Discontinuance" -> {"assurance_of_discontinuance"}
          [] str = "12 Defendants Sentenced in Fraud Scheme" -> {"judgment"}
          [] str = "AG Secures Preliminary Injunction Against MV Realty" -> {"injunction"}
          [] str = "AG Sues Over Broken Settlement" -> {"settlement", "lawsuit_filed"}
          [] str = "The settlement requires the company to pay $5 million." -> {"settlement"}
          [] str = "The state sued the company." -> {"lawsuit_filed"}
          [] str = "The jury found the firm liable under a consent decree." -> {"consent_decree", "judgment"}
          [] OTHER -> {}]

FirstInOrder(types) ==
    IF types = {} THEN None
    ELSE Some(TypeOrder[SetMin({k \in DOMAIN TypeOrder : TypeOrder[k] \in types})])

\* the types read in the first n characters of the body of a release
TypesWithin(release, n) ==
    (IF Len(release.first) <= n THEN TypesRead[release.first] ELSE {}) \cup
    (IF Len(BodyOf(release)) <= n THEN TypesRead[release.last] ELSE {})

TypeRead(release) ==
    IF TypesRead[release.headline] # {} THEN TheValue(FirstInOrder(TypesRead[release.headline]))
    ELSE IF TypesWithin(release, 2000) # {} THEN TheValue(FirstInOrder(TypesWithin(release, 2000)))
         ELSE IF TypesWithin(release, 5000) # {} THEN TheValue(FirstInOrder(TypesWithin(release, 5000)))
              ELSE "other"

\* C17: classify_action_type returns the first type, in the order
\* consent_decree, assurance_of_discontinuance, settlement, judgment,
\* injunction, lawsuit_filed, whose pattern matches the headline; when none
\* does, the first whose pattern matches the first 2000 characters of the
\* body, then the first 5000; "other" exactly when nothing matches; so a
\* "Sues X" and a "Settlement with X" headline give lawsuit_filed and
\* settlement whatever the body
C17_FirstTypeHeadlineThenBody ==
    IsSome(returned) =>
        /\ TheValue(returned) = TypeRead(text)
        /\ text.headline = "AG Sues ExxonMobil for Deceiving the Public" => TheValue(returned) = "lawsuit_filed"
        /\ text.headline = "AG Announces Settlement with Company X" => TheValue(returned) = "settlement"
        /\ TheValue(returned) = "other" <=>
              TypesRead[text.headline] \cup TypesRead[text.first] \cup (IF Len(BodyOf(text)) <= 5000 THEN TypesRead[text.last] ELSE {}) = {}

C17_Witness == IsSome(returned) /\ text = [headline |-> "AG Announces Action", first |-> "The state sued the company.", run |-> 2000, last |-> "The jury found the firm liable under a consent decree."] /\ TheValue(returned) = "lawsuit_filed"

(***************************************************************************)
(* Properties of the fuzzy steps of the resolver                           *)
(***************************************************************************)
\* the best fuzzy score of a cleaned name against a canonical set, 0 when
\* the matcher has nothing to compare
BestScore(cn, cleaned) ==
    IF Len(cleaned) < 4 \/ fuzzy_candidates(cn, cleaned) = {} THEN 0
    ELSE SetMax({NameScore(cleaned, c) : c \in fuzzy_candidates(cn, cleaned)})

\* the canonical names that attain it
BestMatches(cn, cleaned) ==
    {c \in fuzzy_candidates(cn, cleaned) : NameScore(cleaned, c) = BestScore(cn, cleaned)}

FuzzyDecided(cn, rq, raw, cleaned, best, out, cn2, rq2) ==
    /\ best >= 85 =>
          /\ \E c \in BestMatches(cn, cleaned) : out = <<c, best>>
          /\ cn2 = cn /\ rq2 = rq
    /\ (best >= 70 /\ best < 85) =>
          /\ \E c \in BestMatches(cn, cleaned) : rq2 = Append(rq, <<raw, c, best>>)
          /\ out = <<cleaned, 50>>
          /\ cn2 = cn \cup {cleaned}
    /\ best < 70 =>
          /\ out = <<cleaned, 50>>
          /\ cn2 = cn \cup {cleaned}
          /\ rq2 = rq

\* C18: a resolve call that reaches the alias lookups (its cleaned name is
\* valid) and hits with neither decides by the best fuzzy score s against
\* the canonical set: s >= 85 returns (best match, s/100) and leaves the
\* canonical set and the review queue as they were; 70 <= s < 85 appends
\* exactly one entry (raw, best match, s/100) to the review queue, adds the
\* cleaned name to the canonical set and returns (cleaned name, 0.5);
\* s < 70 returns (cleaned name, 0.5), adds the cleaned name and leaves the
\* review queue as it was
C18_FuzzyThresholds ==
    [][(res'.op = "resolve" /\ ~ Unresolvable(res'.arg) /\ ~ AliasHit(res'.arg))
         => FuzzyDecided(canonical_names, review_queue, res'.arg, Cleaned(res'.arg),
                         BestScore(canonical_names, Cleaned(res'.arg)),
                         res'.out, canonical_names', review_queue')]_vars

C18_Witness == res.op = "resolve" /\ res.out = <<Cleaned(res.arg), 50>> /\ Len(review_queue) = 2 /\ review_queue[2][1] = res.arg /\ review_queue[2][3] >= 70 /\ review_queue[2][3] < 85 /\ review_queue[2][2] \in canonical_names /\ Cleaned(res.arg) \in canonical_names \ ConfigCanonicals

(***************************************************************************)
(* Properties of the filter                                                *)
(***************************************************************************)
InScreenedText(place) == place = "headline" \/ place = "body_first_500"

Stage2Finds(doc) == doc.has_defendant /\ (doc.has_dollar \/ doc.has_statute \/ doc.has_court)

BothPresent == IsSome(pair[1].total_amount) /\ IsSome(pair[2].total_amount)

AmountsEqual == BothPresent /\ TheValue(pair[1].total_amount) = TheValue(pair[2].total_amount)

AmountsWithinTenth ==
    /\ BothPresent
    /\ 10 * Min(TheValue(pair[1].total_amount), TheValue(pair[2].total_amount))
          >= 9 * Max(TheValue(pair[1].total_amount), TheValue(pair[2].total_amount))

\* the confidence the formula of the specification gives, over 1000 * w
StatedConfidence(d, gap, w, h) ==
    Min(1000 * w,
        4 * d * w + 200 * (w - gap)
        + (IF AmountsEqual THEN 300 * w ELSE IF AmountsWithinTenth THEN 150 * w ELSE 0)
        + (IF h > 70 THEN h * w ELSE 0))

\* C21: every DedupMatch of _compare_pair has a best pairwise defendant
\* similarity d >= 80 and a confidence in [0.5, 1.0] that is, to the three
\* decimals reported, min(1, 0.4*d/100 + 0.2*(1 - gap/window) + (0.3 if
\* both amounts are present and equal, 0.15 if both are present and within
\* 10%, else 0) + (0.1*h/100 if the headline similarity h > 70, else 0)),
\* the window being the one that admitted the pair
C21_ConfidenceFormula ==
    (verdict.done /\ IsSome(verdict.out)) =>
        /\ defendant_similarity(pair[1].defendants, pair[2].defendants) >= 80
        /\ TheValue(verdict.out).confidence >= 500
        /\ TheValue(verdict.out).confidence <= 1000
        /\ TheValue(verdict.out).confidence =
              RoundDiv(StatedConfidence(defendant_similarity(pair[1].defendants, pair[2].defendants),
                                        DateGap, date_window(pair[1], pair[2]),
                                        lower_token_sort_ratio(pair[1].headline, pair[2].headline)),
                       date_window(pair[1], pair[2]))

(***************************************************************************)
(* Properties of the clusters                                              *)
(***************************************************************************)
\* the connected components, of two ids or more, of the graph whose edges
\* are the multistate matches
Components ==
    {C \in {JoinedTo({x}, MultistateEdges) : x \in AllIds(MultistateEdges)} : Cardinality(C) >= 2}

ClusterIds(k) ==
    LET ids == TheValue(clusters).clusters[k].action_ids
    IN {ids[i] : i \in 1..Len(ids)}

Members(k) ==
    {candidates[i] : i \in {j \in 1..Len(candidates) : candidates[j].action_id \in ClusterIds(k)}}

MemberAmounts(k) == {TheValue(m.total_amount) : m \in {n \in Members(k) : IsSome(n.total_amount)}}

IsSortedSet(states) == \A i, j \in 1..Len(states) : i < j => StrLess(states[i], states[j])

\* C23: the summary of a cluster is computed from its member candidates:
\* lead_state is the state of a member with the earliest date_announced,
\* total_settlement is the largest total_amount of the members that have one
\* and None when none has, and states lists the members' states sorted and
\* without duplicates.
C23_ClusterSummary ==
    (IsSome(clusters) /\ ~ TheValue(clusters).raised) =>
        \A k \in 1..Len(TheValue(clusters).clusters) :
            LET cl == TheValue(clusters).clusters[k]
            IN /\ \E m \in Members(k) :
                     /\ cl.lead_state = m.state
                     /\ \A n \in Members(k) : m.date_announced <= n.date_announced
               /\ cl.total_settlement = IF MemberAmounts(k) = {} THEN None
                                        ELSE Some(SetMax(MemberAmounts(k)))
               /\ IsSortedSet(cl.states)
               /\ {cl.states[i] : i \in 1..Len(cl.states)} = {m.state : m \in Members(k)}

(***************************************************************************)
(* Properties of the settlement amount                                     *)
(***************************************************************************)
\* what a reader takes from a clause: its amount in thousands of dollars,
\* whether its words disqualify it (a grant; a hypothetical "up to"), and
\* whether its words put the amount in a settlement context
ClauseNumberRead(number) ==
    CASE number = "5" -> 5
      [] number = "45" -> 45
      [] number = "168" -> 168
      [] number = "30" -> 30
      [] number = "2" -> 2
      [] number = "5,000" -> 5000

ClauseThousands(c) ==
    IF c.multiplier = "" THEN ClauseNumberRead(c.number) \div 1000
    ELSE ClauseNumberRead(c.number) * Pow10(PowerRead[c.multiplier] - 3)

CeilingThousands == 30000000

WithinCeiling(c) == ClauseThousands(c) <= CeilingThousands

DisqualifyingWords(c) == c.words \in {"grant of ", "penalty up to "}

SettlementWords(c) == c.words \in {"settlement of ", "penalty up to ", "to pay "}

\* the headline is shorter than the context window: a disqualifying word
\* anywhere in it is in the context of each of its amounts
HeadlineKept ==
    {c \in {text.headline[k] : k \in DOMAIN text.headline} :
        /\ WithinCeiling(c)
        /\ \A k \in DOMAIN text.headline : ~ DisqualifyingWords(text.headline[k])}

BodySeq == (IF text.first = None THEN <<>> ELSE text.first) \o (IF text.second = None THEN <<>> ELSE text.second)

\* the clauses of the body that begin in its first 1,500 characters
BodyHeadSeq ==
    (IF text.first = None THEN <<>> ELSE text.first)
        \o (IF text.second = None \/ Len(BodyClauseText(text.first)) + text.run >= 1500 THEN <<>> ELSE text.second)

InContextAt == {k \in DOMAIN BodySeq : SettlementWords(BodySeq[k])}

ContextKept ==
    /\ InContextAt # {}
    /\ ~ DisqualifyingWords(BodySeq[SetMin(InContextAt)])
    /\ WithinCeiling(BodySeq[SetMin(InContextAt)])

FallbackKept ==
    {c \in {BodyHeadSeq[k] : k \in DOMAIN BodyHeadSeq} : WithinCeiling(c) /\ ~ DisqualifyingWords(c)}

LargestThousands(cs) == SetMax({ClauseThousands(c) : c \in cs})

\* the amount the three tiers give, in thousands of dollars
TiersGive ==
    IF HeadlineKept # {} THEN Some(LargestThousands(HeadlineKept))
    ELSE IF ContextKept THEN Some(ClauseThousands(BodySeq[SetMin(InContextAt)]))
    ELSE IF FallbackKept # {} THEN Some(LargestThousands(FallbackKept))
    ELSE None

ReturnedAmount == TheValue(TheValue(returned)).amount

\* C24: extract_settlement_amount applies its three tiers in order and
\* never returns an amount above the $30B ceiling: the largest headline
\* amount that is not disqualified and is within the ceiling; else the
\* first settlement-context amount of the body when it is not disqualified
\* and is within the ceiling; else the largest such amount of the first
\* 1,500 body characters; else None.
C24_ThreeTiersUnderCeiling ==
    IsSome(returned) =>
        /\ TheValue(returned) # None => dec_le(ReturnedAmount, MAX_SETTLEMENT)
        /\ IF TiersGive = None THEN TheValue(returned) = None
           ELSE /\ TheValue(returned) # None
                /\ ReturnedAmount = DecNormal(TheValue(TiersGive), 3)

\* the one clause of a press release that has one clause
OnlyClause ==
    IF text.headline # <<>> THEN text.headline[1]
    ELSE IF text.first # None THEN TheValue(text.first) ELSE TheValue(text.second)

OneClause ==
    Len(text.headline) + (IF text.first = None THEN 0 ELSE 1) + (IF text.second = None THEN 0 ELSE 1) = 1

\* C25: an amount written with a single-letter multiplier (K, M, B) is
\* scaled like the same amount written with the word, in each tier of
\* extract_settlement_amount: "$168M" gives 168,000,000 from the headline,
\* from the settlement context of the body and from the fallback scan.
C25_LetterMultiplierInEveryTier ==
    (IsSome(returned) /\ OneClause /\ OnlyClause.multiplier \in {"K", "M", "B"}
        /\ WithinCeiling(OnlyClause) /\ ~ DisqualifyingWords(OnlyClause)
        /\ (text.second = None \/ text.run < 1500)) =>
        /\ TheValue(returned) # None
        /\ ReturnedAmount = DecNormal(ClauseNumberRead(OnlyClause.number) * Pow10(PowerRead[OnlyClause.multiplier] - 3), 3)

(***************************************************************************)
(* Properties of the name cleaning                                         *)
(***************************************************************************)
\* what the case rule gives for each name, read by hand: a name all in
\* capitals or all in small letters is put in title case, a token of two or
\* three characters all in capitals is left as it is, a mixed-case name is
\* left as it is
CaseRead(core) ==
    CASE core \in {"CVS", "3M", "IBM", "AT", "BP"} -> core
      [] core = "cvs" -> "Cvs"
      [] core = "3m" -> "3M"
      [] core \in {"Acme", "ACME", "acme"} -> "Acme"
      [] core = "GOOGLE" -> "Google"
      [] core = "exxonmobil" -> "Exxonmobil"
      [] core \in {"Wells Fargo", "WELLS FARGO", "wells fargo"} -> "Wells Fargo"
      [] core = "JPMORGAN CHASE" -> "Jpmorgan Chase"
      [] core = "McKesson" -> "McKesson"

\* C26: clean_name puts a name written all in capitals or all in small
\* letters in title case, but leaves a short token of two or three
\* characters all in capitals unchanged: clean_name("CVS") is "CVS" and
\* clean_name("3M") is "3M".
C26_ShortAcronymsKeepCase == IsSome(returned) => TheValue(returned) = CaseRead(text.core)

(***************************************************************************)
(* Properties of a resolver over its lifetime                              *)
(***************************************************************************)
\* C27: once resolve(x) has returned a non-empty canonical name c, every
\* later resolve(x) on the same resolver returns the name c, whatever was
\* resolved in between.
C27_CanonicalNameStable ==
    [][(IsSome(returned) /\ res'.op = "resolve" /\ res'.arg = text.name)
          => res'.out[1] = TheValue(returned)]_vars

\* the (canonical name, confidence) results a call of resolve can return in
\* this state of the resolver, over the orders in which the set of
\* canonical names can be iterated
PossibleResults(raw_name) ==
    {<<r.name, r.conf>> : r \in resolve(canonical_names, review_queue, raw_name)}

\* C28: the same sequence of resolve calls from the same alias table gives
\* the same sequence of results on every run: the result of a call does not
\* depend on the order in which the set of canonical names is iterated,
\* also when several canonical names tie for the best fuzzy score.
C28_ResolutionReproducible == \A raw_name \in RawNames : Cardinality(PossibleResults(raw_name)) = 1

(***************************************************************************)
(* Properties of the batch loop of run_extraction                          *)
(***************************************************************************)
\* the batch loop of run_extraction is running
InBulk == run.mode = "bulk"

\* C29: run_extraction terminates: every record the batch loop handles -
\* accepted and extracted, filtered out, or failed with an exception -
\* leaves its batch with quality_score > 0 and keeps a non-zero score while
\* the run lasts, a later batch holds only records whose score is still 0,
\* and a run that has started its batch loop reaches its end.
C29_RunExtractionTerminates ==
    /\ [][InBulk =>
            \A action_id \in RecordIds :
               /\ Handled(action_id) =>
                     /\ db'.actions[action_id].quality_score > 0
                     /\ action_id \notin Unprocessed(db')
               /\ db.actions[action_id].quality_score > 0
                     => db'.actions[action_id].quality_score > 0
               /\ (action_id \in run'.batch /\ action_id \notin run.batch)
                     => action_id \in Unprocessed(db)]_vars
    /\ InBulk ~> (run.mode = "idle")

\* a run of run_extraction has ended after an exception in one record and
\* the extraction or the filtering of the other; nothing is left to select
C29_Witness ==
    /\ run.mode = "idle" /\ run.runs = 1
    /\ stats.errors = 1
    /\ stats.extracted + stats.filtered_out = 1
    /\ db.actions["r1"].quality_score = 10
    /\ db.actions["r2"].quality_score >= 15
    /\ Unprocessed(db) = {}

(***************************************************************************)
(* Properties of link_multistate_actions                                   *)
(***************************************************************************)
\* the canonical names of the Defendant rows of a stored action, in order
CanonicalNames(action) ==
    LET named == SelectSeq(action.action_defendants, LAMBDA d : d.canonical_name # "")
    IN [k \in 1..Len(named) |-> named[k].canonical_name]

\* the stored action a candidate was built from
ActionOf(candidate) ==
    db.actions[CHOOSE k \in 1..Len(db.actions) : db.actions[k].id = candidate.action_id]

\* C30: the dedup candidates link_multistate_actions builds carry the
\* canonical names of their action's defendants and nothing else: a
\* mention the resolver rejected (stored with an empty canonical_name)
\* contributes no name, and an action none of whose defendants has a
\* canonical name has no defendants for comparison and is not linked into
\* a multistate cluster.
C30_CandidatesCarryCanonicalNames ==
    IsSome(clusters) =>
       /\ \A k \in 1..Len(candidates) :
             candidates[k].defendants = CanonicalNames(ActionOf(candidates[k]))
       /\ \A k \in 1..Len(db.actions) :
             CanonicalNames(db.actions[k]) = <<>>
                => db.actions[k].multistate_action_id = None

====
